---- MODULE Spec2Model ----
(***************************************************************************)
(* A model of the gold-fix FIX engine: one initiator Session (its          *)
(* SessionState, transport handle, heartbeat monitor task and message      *)
(* processor task), the MessageStore index it writes, the pooled Heartbeat *)
(* instance it reuses, and the Acceptor that may sit at the other end.     *)
(***************************************************************************)
EXTENDS Integers, Sequences, FiniteSets

\* ------------------------------------------------------------------ bounds
\* largest MsgSeqNum the counterparty puts in a frame
MaxSeq == 3
\* number of frames the counterparty delivers in one run
MaxInbound == 2
\* wall-clock reading (seconds since UNIX_EPOCH) when the session is built;
\* any present-day reading exceeds every timeout of the session
Epoch == 100
\* seconds of wall-clock time a run covers
MaxElapsed == 16
\* SessionConfig.heart_bt_int of the modelled session
HeartBtInt == 5
\* pairs of tasks (monitor, processor) that start() and recover() spawn for
\* one session and that are followed at a time
MaxTasks == 2
\* calls of stop(), disconnect(), logout() and recover() in one run
MaxCalls == 1
\* largest version the store's counter reaches
MaxVersion == 3
\* messages one transaction buffers
MaxBuffered == 2
\* test requests counted by a SessionState driven mutator by mutator
MaxCounter == 2
\* sessions in the engine's configuration
MaxConfigured == 1
\* sessions the initiator registers, and sessions the acceptor registers
MaxSessions == 2
\* calls of FixEngine::add_session and FixEngine::start
MaxEngineCalls == 3

\* ------------------------------------------------------ program constants
LOGON_TIMEOUT == 10
TEST_REQUEST_DELAY == 2

\* field::values message types
HEARTBEAT == "0"
TEST_REQUEST == "1"
RESEND_REQUEST == "2"
SEQUENCE_RESET == "4"
LOGOUT == "5"
LOGON == "A"
NEW_ORDER_SINGLE == "D"

\* ------------------------------------------------------------- conversions
\* i32::to_string for the one-digit numbers the model uses
DigitStr == <<"1", "2", "3", "4", "5", "6", "7", "8", "9">>

to_string(n) == DigitStr[n]

\* str::parse::<i32>: Ok(n) for a decimal numeral, Err for any other text
ParseI32(s) ==
    IF \E n \in 1..Len(DigitStr) : DigitStr[n] = s
    THEN [ok |-> TRUE, val |-> CHOOSE n \in 1..Len(DigitStr) : DigitStr[n] = s]
    ELSE [ok |-> FALSE, val |-> 0]

\* ---------------------------------------------------------------- messages
NoId == <<>>

\* Message::new: set_default_headers puts MsgSeqNum(34) = "1" in every message
NewMessage(t) ==
    [type |-> t, seq |-> "1", possDup |-> "", testReqId |-> NoId,
     beginSeqNo |-> "", endSeqNo |-> "", gapFill |-> "", newSeqNo |-> ""]

SeqTexts == {to_string(n) : n \in 1..MaxSeq}

\* the frames a FIX counterparty may deliver: MsgSeqNum(34) is a numeral or
\* text that does not parse; PossDupFlag(43) set or not; the type's own fields
PeerHeader == [seq : SeqTexts \cup {"x"}, possDup : {"Y", ""}]

PeerBody ==
    {[type |-> t, testReqId |-> NoId, beginSeqNo |-> "", endSeqNo |-> "",
      gapFill |-> "", newSeqNo |-> ""] : t \in {HEARTBEAT, LOGOUT, LOGON, NEW_ORDER_SINGLE}}
    \cup {[type |-> TEST_REQUEST, testReqId |-> i, beginSeqNo |-> "", endSeqNo |-> "",
           gapFill |-> "", newSeqNo |-> ""] : i \in {NoId, <<"PEER", 1>>}}
    \cup {[type |-> RESEND_REQUEST, testReqId |-> NoId, beginSeqNo |-> to_string(b),
           endSeqNo |-> to_string(e), gapFill |-> "", newSeqNo |-> ""] :
              b \in 1..MaxSeq, e \in {MaxSeq}}
    \cup {[type |-> SEQUENCE_RESET, testReqId |-> NoId, beginSeqNo |-> "", endSeqNo |-> "",
           gapFill |-> g, newSeqNo |-> to_string(k)] : g \in {"Y", "N"}, k \in {1, MaxSeq + 2}}

PeerMessages ==
    {[type |-> b.type, seq |-> h.seq, possDup |-> h.possDup, testReqId |-> b.testReqId,
      beginSeqNo |-> b.beginSeqNo, endSeqNo |-> b.endSeqNo, gapFill |-> b.gapFill,
      newSeqNo |-> b.newSeqNo] : h \in PeerHeader, b \in PeerBody}

\* the store's index of one session: MsgSeqNum -> (message, version)
\* (of a stored message the model keeps MsgType(35) and MsgSeqNum(34))
StoredFields(msg) == [type |-> msg.type, seq |-> msg.seq]

EmptyIndex == [s \in {} |-> [msg |-> StoredFields(NewMessage(HEARTBEAT)), version |-> 0]]

Insert(index, k, v) ==
    [x \in DOMAIN index \cup {k} |-> IF x = k THEN v ELSE index[x]]

\* MessageStore.transactions has no entry for the session
NoTransaction == [started |-> FALSE, version |-> 0, messages |-> <<>>]

\* no Message has been built yet; nothing was serialized or parsed yet
NoOriginal == [msg_type |-> <<>>, fields |-> <<>>, groups |-> <<>>]

NotSerialized == [ok |-> FALSE, text |-> <<>>]

NotParsed == [ok |-> FALSE, msg |-> NoOriginal, called |-> FALSE]

\* the slots of the task pairs start() and recover() spawn
Tasks == 1..MaxTasks

\* ------------------------------------------------------------------- state
VARIABLES
    status,               \* SessionState.status
    next_outgoing_seq,    \* SessionState.next_outgoing_seq
    next_incoming_seq,    \* SessionState.next_incoming_seq
    test_request_counter, \* SessionState.test_request_counter
    last_send_time,       \* SessionState.last_send_time
    last_receive_time,    \* SessionState.last_receive_time
    state_file,           \* what store/sessions/<session_id>_state.json holds
    transport,            \* Session.transport: "None" or "Some"
    reset_on_disconnect,  \* SessionConfig.reset_on_disconnect
    hb_pc,                \* heartbeat monitor tasks: where each stands
    proc_pc,              \* message processor tasks: where each stands
    next_tick,            \* the instant each monitor's interval fires next
    api_pc,               \* the stop/disconnect/logout/recover call in progress
    api_result,           \* the last such call that returned, and its Result
    api_calls,            \* how many such calls were made
    now,                  \* the wall clock, in seconds
    link,                 \* the TCP connection: "none", "up", "closed", "reset"
    peer,                 \* what listens at target_addr
    wire,                 \* the messages written to the transport, in order
    last_recv,            \* the frame the processor handled last
    recv_count,           \* how many frames the processors have handled
    invalid_run,          \* consecutive frames received that do not parse
    messages,             \* MessageStore.messages[session_id]: seq -> (msg, version)
    version_counter,      \* MessageStore.version_counter
    sequence_numbers,     \* MessageStore.sequence_numbers[session_id]
    transactions,         \* MessageStore.transactions[session_id]
    file,                 \* the lines of store/<session_id>.messages
    store_result,         \* what the last MessageStore call returned
    pool_heartbeat,       \* the pooled Heartbeat instance get_message pops next
    acceptor_sessions,    \* Acceptor.sessions
    listener,             \* Acceptor.listener: "None" or "Some"
    engine_config,        \* FixEngine.config.sessions
    initiator_sessions,   \* Initiator.sessions
    engine_result,        \* what the last FixEngine call returned
    unread,               \* the bytes the peer wrote that no read has returned
    buffer,               \* Transport.buffer
    receive_result,       \* what the last Transport::receive returned
    original,             \* the Message an application builds
    msg_str,              \* what to_string returned for it
    parsed                \* what Message::from_string returned for msg_str

acceptor_vars == <<acceptor_sessions, listener>>

engine_vars == <<engine_config, initiator_sessions, engine_result>>

buffer_vars == <<unread, buffer, receive_result>>

message_vars == <<original, msg_str, parsed>>

state_vars == <<status, next_outgoing_seq, next_incoming_seq, test_request_counter,
                last_send_time, last_receive_time, state_file>>

store_vars == <<messages, version_counter, sequence_numbers, transactions, file,
                store_result>>

task_vars == <<hb_pc, proc_pc, next_tick>>

api_vars == <<api_pc, api_result, api_calls>>

recv_vars == <<last_recv, recv_count, invalid_run>>

vars == <<state_vars, transport, reset_on_disconnect, task_vars, api_vars, now,
          link, peer, wire, recv_vars, store_vars, pool_heartbeat, acceptor_vars,
          engine_vars, buffer_vars, message_vars>>

\* SessionState::persist: the JSON that replaces the state file
persist ==
    [status |-> status,
     next_outgoing_seq |-> next_outgoing_seq,
     next_incoming_seq |-> next_incoming_seq,
     last_send_time |-> last_send_time,
     last_receive_time |-> last_receive_time,
     test_request_counter |-> test_request_counter]

\* SessionState::load_or_create on an existing state file: the state read
\* from it, with the status Recovering
load_or_create == [state_file EXCEPT !.status = "Recovering"]

\* SessionState::with_config, Session::new, MessageStore::new, MessagePool::new
InitSession ==
    /\ status = "Created"
    /\ next_outgoing_seq = 1
    /\ next_incoming_seq = 1
    /\ test_request_counter = 0
    /\ last_send_time = 0
    /\ last_receive_time = 0
    /\ state_file = persist
    /\ transport = "None"
    /\ hb_pc = [i \in Tasks |-> "unspawned"]
    /\ proc_pc = [i \in Tasks |-> "unspawned"]
    /\ next_tick = [i \in Tasks |-> 0]
    /\ api_pc = "idle"
    /\ api_result = [call |-> "none", ok |-> TRUE]
    /\ api_calls = 0
    /\ now = Epoch
    /\ original = NoOriginal
    /\ msg_str = NotSerialized
    /\ parsed = NotParsed
    /\ link = "none"
    /\ wire = <<>>
    /\ last_recv = NewMessage(HEARTBEAT)
    /\ recv_count = 0
    /\ invalid_run = 0
    /\ messages = EmptyIndex
    /\ version_counter = 0
    /\ sequence_numbers = 0
    /\ transactions = NoTransaction
    /\ file = <<>>
    /\ store_result = [op |-> "none", ok |-> TRUE]
    /\ pool_heartbeat = NewMessage(HEARTBEAT)
    /\ acceptor_sessions = <<>>
    /\ listener = "None"
    /\ initiator_sessions = <<>>
    /\ engine_result = [call |-> "none", ok |-> TRUE, n |-> 0]
    /\ buffer = <<>>
    /\ receive_result = [ok |-> TRUE, frame |-> <<>>]

Init ==
    /\ InitSession
    /\ peer = "counterparty"
    /\ reset_on_disconnect = TRUE
    /\ engine_config = <<>>
    /\ unread = <<>>

\* SessionConfig.reset_on_logon of the session; no code of Session reads it
reset_on_logon == TRUE

\* ------------------------------------------------------ SessionState getters
\* SessionState::should_send_test_request, with t the clock reading it takes
should_send_test_request(t) ==
    t - last_receive_time > HeartBtInt + TEST_REQUEST_DELAY

\* SessionState::should_disconnect, with t the clock reading it takes
should_disconnect(t) ==
    CASE status = "InitiateLogon" -> t - last_send_time > LOGON_TIMEOUT
      [] status = "Connected" ->
            \/ test_request_counter >= 2
            \/ t - last_receive_time > 2 * HeartBtInt
      [] OTHER -> FALSE

\* ---------------------------------------------------------------- the locks
\* the calls that hold the state mutex while they wait for the transport mutex
StateHolders == {"stop", "disconnect", "disconnect_clear", "logout",
                 "recover_logout", "recover_connect"}

\* the state mutex is free unless a monitor sits on it (see HbTick) or a call
\* of the session's API holds it
StateLockFree ==
    /\ api_pc \notin StateHolders
    /\ \A i \in Tasks : hb_pc[i] # "blocked"

\* the transport mutex is held by a processor for the whole of its
\* `if let Some(transport) = transport_clone.lock().await.as_mut()` body
TransportLockFree == \A i \in Tasks : proc_pc[i] # "receive"

\* ---------------------------------------------------------------- transport
\* Transport::send: Ok while the connection stands, Err once it is broken;
\* a write to a connection the peer has closed may still be taken or fail
SendOutcomes ==
    CASE link = "up" -> {TRUE}
      [] link = "closed" -> BOOLEAN
      [] OTHER -> {FALSE}

\* a send whose Err is only logged: the wire after it
Sent(w, m) == IF link = "up" THEN Append(w, m) ELSE w

\* Session::create_logon_message
create_logon_message == NewMessage(LOGON)

\* Session::create_logout_message
create_logout_message == NewMessage(LOGOUT)

\* the slots whose monitor and processor have not been spawned or have both
\* ended, and the slot the next pair of tasks gets
FreeSlots ==
    {i \in Tasks : /\ hb_pc[i] \in {"unspawned", "done"}
                   /\ proc_pc[i] \in {"unspawned", "done"}}

NewTask == CHOOSE i \in FreeSlots : \A j \in FreeSlots : i <= j

\* start_heartbeat_monitor and start_message_processor: a monitor whose
\* interval fires at once, and a processor at the top of its loop
SpawnTasks ==
    /\ hb_pc' = [hb_pc EXCEPT ![NewTask] = "wait"]
    /\ next_tick' = [next_tick EXCEPT ![NewTask] = now]
    /\ proc_pc' = [proc_pc EXCEPT ![NewTask] = "loop"]

\* ------------------------------------------------------------ Session::start
\* start(), called on a new session while no other call is in progress:
\* status Connecting, then TcpStream::connect is awaited
StartConnect ==
    /\ status = "Created"
    /\ api_pc = "idle"
    /\ status' = "Connecting"
    /\ UNCHANGED <<next_outgoing_seq, next_incoming_seq, test_request_counter,
                   last_send_time, last_receive_time, transport,
                   reset_on_disconnect, task_vars, api_vars, now, link, peer,
                   wire, recv_vars, store_vars, pool_heartbeat, acceptor_vars,
                   engine_vars, buffer_vars, message_vars>>
    /\ state_file' = persist'

\* the connect fails: `?` returns the error, the status is left as it is
ConnectFail ==
    /\ status = "Connecting"
    /\ transport = "None"
    /\ link = "none"
    /\ peer = "acceptor" => listener = "None"
    /\ link' = "refused"
    /\ UNCHANGED <<state_vars, transport, reset_on_disconnect, task_vars,
                   api_vars, now, peer, wire, recv_vars, store_vars,
                   pool_heartbeat, acceptor_vars, engine_vars, buffer_vars, message_vars>>

\* the connect succeeds: transport installed, initiate_logon, both tasks spawned
ConnectOk ==
    /\ status = "Connecting"
    /\ transport = "None"
    /\ link = "none"
    /\ peer = "acceptor" => listener = "Some"
    /\ link' = "up"
    /\ transport' = "Some"
    /\ status' = "InitiateLogon"
    /\ last_send_time' = now
    /\ wire' = Append(wire, create_logon_message)
    /\ SpawnTasks
    /\ UNCHANGED <<next_outgoing_seq, next_incoming_seq, test_request_counter,
                   last_receive_time, reset_on_disconnect, api_vars, now, peer,
                   recv_vars, store_vars, pool_heartbeat, acceptor_vars,
                   engine_vars, buffer_vars, message_vars>>
    /\ state_file' = persist'

\* ------------------------------------------- Session::start_heartbeat_monitor
\* interval.tick() fires, the monitor locks the state and decides:
\* disconnect, or count a test request, or fall through to the second lock()
\* with the first guard still alive, which never returns
HbTick(i) ==
    /\ hb_pc[i] = "wait"
    /\ StateLockFree
    /\ next_tick[i] <= Epoch + MaxElapsed
    /\ LET t == IF next_tick[i] > now THEN next_tick[i] ELSE now IN
         /\ now' = t
         /\ next_tick' = [next_tick EXCEPT ![i] = next_tick[i] + HeartBtInt]
         /\ IF should_disconnect(t)
            THEN /\ status' = "Disconnecting"
                 /\ hb_pc' = [hb_pc EXCEPT ![i] = "done"]
                 /\ UNCHANGED test_request_counter
            ELSE IF should_send_test_request(t)
            THEN /\ test_request_counter' = test_request_counter + 1
                 /\ hb_pc' = [hb_pc EXCEPT ![i] = "test_request"]
                 /\ UNCHANGED status
            ELSE /\ hb_pc' = [hb_pc EXCEPT ![i] = "blocked"]
                 /\ UNCHANGED <<status, test_request_counter>>
    /\ UNCHANGED <<next_outgoing_seq, next_incoming_seq, last_send_time,
                   last_receive_time, transport, reset_on_disconnect, proc_pc,
                   api_vars, link, peer, wire, recv_vars, store_vars,
                   pool_heartbeat, acceptor_vars, engine_vars, buffer_vars, message_vars>>
    /\ state_file' = persist'

\* the TestRequest of this tick: a fresh message with TestReqID TEST_REQ_<now>
test_request_message ==
    [NewMessage(TEST_REQUEST) EXCEPT !.testReqId = <<"TEST_REQ", now>>]

\* the monitor locks the transport and sends the TestRequest; a failed send
\* ends the task
HbTestRequest(i) ==
    /\ hb_pc[i] = "test_request"
    /\ TransportLockFree
    /\ \E ok \in SendOutcomes :
         IF transport = "Some" /\ ~ok
         THEN hb_pc' = [hb_pc EXCEPT ![i] = "done"] /\ UNCHANGED wire
         ELSE /\ hb_pc' = [hb_pc EXCEPT ![i] = "status_check"]
              /\ wire' = IF transport = "Some"
                         THEN Append(wire, test_request_message) ELSE wire
    /\ UNCHANGED <<state_vars, transport, reset_on_disconnect, proc_pc,
                   next_tick, api_vars, now, link, peer, recv_vars, store_vars,
                   pool_heartbeat, acceptor_vars, engine_vars, buffer_vars, message_vars>>

\* the monitor locks the state again: a heartbeat is due only when Connected
HbStatusCheck(i) ==
    /\ hb_pc[i] = "status_check"
    /\ StateLockFree
    /\ hb_pc' = [hb_pc EXCEPT ![i] =
                    IF status = "Connected" THEN "heartbeat" ELSE "wait"]
    /\ UNCHANGED <<state_vars, transport, reset_on_disconnect, proc_pc,
                   next_tick, api_vars, now, link, peer, wire, recv_vars,
                   store_vars, pool_heartbeat, acceptor_vars,
                   engine_vars, buffer_vars, message_vars>>

\* the monitor locks the transport and sends the pooled Heartbeat as it lies
\* in the pool, then returns it; a failed send ends the task
HbHeartbeat(i) ==
    /\ hb_pc[i] = "heartbeat"
    /\ TransportLockFree
    /\ \E ok \in SendOutcomes :
         IF transport = "Some" /\ ~ok
         THEN hb_pc' = [hb_pc EXCEPT ![i] = "done"] /\ UNCHANGED wire
         ELSE /\ hb_pc' = [hb_pc EXCEPT ![i] = "wait"]
              /\ wire' = IF transport = "Some"
                         THEN Append(wire, pool_heartbeat) ELSE wire
    /\ UNCHANGED <<state_vars, transport, reset_on_disconnect, proc_pc,
                   next_tick, api_vars, now, link, peer, recv_vars, store_vars,
                   pool_heartbeat, acceptor_vars, engine_vars, buffer_vars, message_vars>>

\* ------------------------------------------- Session::start_message_processor
\* the ResendRequest the processor builds for a gap: BeginSeqNo(7) is the
\* expected number e, EndSeqNo(16) the number s of the frame just read
resend_request_message_from_received(e, s) ==
    [NewMessage(RESEND_REQUEST) EXCEPT !.beginSeqNo = to_string(s),
                                       !.endSeqNo = to_string(s)]

resend_request_message(e, s) ==
    [NewMessage(RESEND_REQUEST) EXCEPT !.beginSeqNo = to_string(e),
                                       !.endSeqNo = to_string(s)]

\* `if seq_num > state.next_incoming_seq()`: the only test on the number
SequenceGap(s, e) == s > e

\* a store_message that takes no notice of the transaction: the index, the
\* counters and the file are written in either case
store_message_write_through(seq_num, msg) ==
    /\ version_counter' = version_counter + 1
    /\ messages' = Insert(messages, seq_num,
                          [msg |-> StoredFields(msg),
                           version |-> version_counter + 1])
    /\ sequence_numbers' = seq_num + 1
    /\ file' = Append(file, [seq_num |-> seq_num,
                             version |-> version_counter + 1,
                             msg |-> StoredFields(msg)])
    /\ transactions' =
          IF transactions # NoTransaction
          THEN [transactions EXCEPT !.messages =
                   Append(@, [seq_num |-> seq_num, msg |-> StoredFields(msg)])]
          ELSE transactions

\* MessageStore::store_message: inside a transaction the message is pushed on
\* the transaction's buffer; outside, a new version, the index entry for
\* seq_num, sequence_numbers = seq_num + 1 and one more line in the file
store_message(seq_num, msg) ==
    IF transactions # NoTransaction
    THEN /\ transactions' = [transactions EXCEPT !.messages =
                                Append(@, [seq_num |-> seq_num,
                                           msg |-> StoredFields(msg)])]
         /\ UNCHANGED <<version_counter, messages, sequence_numbers, file>>
    ELSE /\ version_counter' = version_counter + 1
         /\ messages' = Insert(messages, seq_num,
                               [msg |-> StoredFields(msg),
                                version |-> version_counter + 1])
         /\ sequence_numbers' = seq_num + 1
         /\ file' = Append(file, [seq_num |-> seq_num,
                                  version |-> version_counter + 1,
                                  msg |-> StoredFields(msg)])
         /\ UNCHANGED transactions

\* the status the `match msg.msg_type()` leaves
DispatchStatus(msg) ==
    CASE msg.type = LOGON /\ status = "InitiateLogon" -> "Connected"
      [] msg.type = LOGOUT -> "Disconnected"
      [] OTHER -> status

\* the test_request_counter the `match msg.msg_type()` leaves
DispatchCounter(msg) ==
    CASE msg.type = LOGON /\ status = "InitiateLogon" -> 0
      [] msg.type = HEARTBEAT -> 0
      [] OTHER -> test_request_counter

\* TEST_REQUEST arm: the pooled Heartbeat, with the TestReqID(112) of the
\* request written into it when the request carries one
HeartbeatReply(msg) ==
    IF msg.testReqId # NoId
    THEN [pool_heartbeat EXCEPT !.testReqId = msg.testReqId]
    ELSE pool_heartbeat

\* what the `match msg.msg_type()` writes to the transport
DispatchWire(msg) ==
    IF msg.type = TEST_REQUEST /\ msg.testReqId # NoId
    THEN Sent(wire, HeartbeatReply(msg))
    ELSE wire

\* the frames whose handling locks the state: those with a numeric MsgSeqNum
\* and those of a type whose arm locks it
LocksState(msg) ==
    \/ ParseI32(msg.seq).ok
    \/ msg.type \in {LOGON, HEARTBEAT, LOGOUT}

\* the top of the loop: lock the state, leave if Disconnected, unlock
ProcCheck(i) ==
    /\ proc_pc[i] = "loop"
    /\ StateLockFree
    /\ proc_pc' = [proc_pc EXCEPT ![i] =
                      IF status = "Disconnected" THEN "done" ELSE "lock_transport"]
    /\ UNCHANGED <<state_vars, transport, reset_on_disconnect, hb_pc, next_tick,
                   api_vars, now, link, peer, wire, recv_vars, store_vars,
                   pool_heartbeat, acceptor_vars, engine_vars, buffer_vars, message_vars>>

\* lock the transport: with one installed the processor awaits receive()
\* holding the lock, with none it goes round the loop
ProcEnter(i) ==
    /\ proc_pc[i] = "lock_transport"
    /\ TransportLockFree
    /\ proc_pc' = [proc_pc EXCEPT ![i] =
                      IF transport = "Some" THEN "receive" ELSE "loop"]
    /\ UNCHANGED <<state_vars, transport, reset_on_disconnect, hb_pc, next_tick,
                   api_vars, now, link, peer, wire, recv_vars, store_vars,
                   pool_heartbeat, acceptor_vars, engine_vars, buffer_vars, message_vars>>

\* receive() returns a complete frame and the processor handles it
ProcReceive(i, msg) ==
    /\ proc_pc[i] = "receive"
    /\ LocksState(msg) => StateLockFree
    /\ link = "up"
    /\ peer = "counterparty"
    /\ recv_count < MaxInbound
    /\ recv_count' = recv_count + 1
    /\ last_recv' = msg
    /\ invalid_run' = 0
    /\ LET seq_num == ParseI32(msg.seq) IN
         IF seq_num.ok /\ SequenceGap(seq_num.val, next_incoming_seq)
         THEN \* gap: ResendRequest, `continue`
              /\ wire' = Sent(wire, resend_request_message(next_incoming_seq,
                                                           seq_num.val))
              /\ proc_pc' = [proc_pc EXCEPT ![i] = "loop"]
              /\ UNCHANGED <<status, next_incoming_seq, test_request_counter,
                             store_vars, pool_heartbeat>>
         ELSE /\ IF seq_num.ok
                 THEN /\ store_message(seq_num.val, msg)
                      /\ next_incoming_seq' = next_incoming_seq + 1
                 ELSE UNCHANGED <<messages, version_counter, sequence_numbers,
                                  transactions, file, next_incoming_seq>>
              /\ status' = DispatchStatus(msg)
              /\ test_request_counter' = DispatchCounter(msg)
              /\ wire' = DispatchWire(msg)
              /\ pool_heartbeat' = IF msg.type = TEST_REQUEST
                                   THEN HeartbeatReply(msg) ELSE pool_heartbeat
              /\ proc_pc' = [proc_pc EXCEPT ![i] =
                                IF msg.type = LOGOUT THEN "done" ELSE "loop"]
              /\ UNCHANGED store_result
    /\ UNCHANGED <<next_outgoing_seq, last_send_time, last_receive_time, transport,
                   reset_on_disconnect, hb_pc, next_tick, api_vars, now, link,
                   peer, acceptor_vars, engine_vars, buffer_vars, message_vars>>
    /\ state_file' = persist'

\* receive() reads end of file from a connection the peer has closed:
\* Ok(None), sleep 100 ms, unlock the transport
ProcRecvNone(i) ==
    /\ proc_pc[i] = "receive"
    /\ link = "closed"
    /\ proc_pc' = [proc_pc EXCEPT ![i] = "loop"]
    /\ UNCHANGED <<state_vars, transport, reset_on_disconnect, hb_pc, next_tick,
                   api_vars, now, link, peer, wire, recv_vars, store_vars,
                   pool_heartbeat, acceptor_vars, engine_vars, buffer_vars, message_vars>>

\* the Err arm: lock the state, status Error, break
RecvErr(i) ==
    /\ StateLockFree
    /\ status' = "Error"
    /\ proc_pc' = [proc_pc EXCEPT ![i] = "done"]
    /\ UNCHANGED <<next_outgoing_seq, next_incoming_seq, test_request_counter,
                   last_send_time, last_receive_time, transport,
                   reset_on_disconnect, hb_pc, next_tick, api_vars, now, link,
                   peer, wire, last_recv, recv_count, store_vars,
                   pool_heartbeat, acceptor_vars, engine_vars, buffer_vars, message_vars>>
    /\ state_file' = persist'

\* receive() returns Err because the read on the broken connection fails
ProcRecvError(i) ==
    /\ proc_pc[i] = "receive"
    /\ link = "reset"
    /\ RecvErr(i)
    /\ UNCHANGED invalid_run

\* receive() returns Err because MessageParser::parse rejects the frame read
\* (a field without '=', a tag that is not a number, no BeginString or MsgType)
ProcRecvInvalid(i) ==
    /\ proc_pc[i] = "receive"
    /\ link = "up"
    /\ peer = "counterparty"
    /\ RecvErr(i)
    /\ invalid_run' = invalid_run + 1

\* ---------------------------------------- Session::stop, disconnect, logout
\* the application makes one call at a time, and none while start() runs
StartRunning == status = "Connecting" /\ link = "none"

CanCall ==
    /\ api_pc = "idle"
    /\ api_calls < MaxCalls
    /\ ~StartRunning
    /\ StateLockFree

\* the first statements of stop(), disconnect() and logout(): lock the state,
\* status Disconnecting, then wait for the transport lock with the state held
CallShutdown(call) ==
    /\ CanCall
    /\ api_pc' = call
    /\ api_calls' = api_calls + 1
    /\ status' = "Disconnecting"
    /\ UNCHANGED <<next_outgoing_seq, next_incoming_seq, test_request_counter,
                   last_send_time, last_receive_time, transport,
                   reset_on_disconnect, task_vars, api_result, now, link, peer,
                   wire, recv_vars, store_vars, pool_heartbeat, acceptor_vars,
                   engine_vars, buffer_vars, message_vars>>
    /\ state_file' = persist'

\* stop() with the transport lock: take() the transport, send Logout with `?`,
\* status Disconnected; the taken transport is dropped on either way out
StopFinish ==
    /\ api_pc = "stop"
    /\ TransportLockFree
    /\ api_pc' = "idle"
    /\ transport' = "None"
    /\ IF transport = "Some"
       THEN /\ link' = "none"
            /\ \E ok \in SendOutcomes :
                 IF ok
                 THEN /\ wire' = Append(wire, create_logout_message)
                      /\ status' = "Disconnected"
                      /\ api_result' = [call |-> "stop", ok |-> TRUE]
                 ELSE /\ api_result' = [call |-> "stop", ok |-> FALSE]
                      /\ UNCHANGED <<wire, status>>
       ELSE /\ status' = "Disconnected"
            /\ api_result' = [call |-> "stop", ok |-> TRUE]
            /\ UNCHANGED <<wire, link>>
    /\ UNCHANGED <<next_outgoing_seq, next_incoming_seq, test_request_counter,
                   last_send_time, last_receive_time, reset_on_disconnect,
                   task_vars, api_calls, now, peer, recv_vars, store_vars,
                   pool_heartbeat, acceptor_vars, engine_vars, buffer_vars, message_vars>>
    /\ state_file' = persist'

\* disconnect() with the transport lock: best-effort Logout, unlock
DisconnectSend ==
    /\ api_pc = "disconnect"
    /\ TransportLockFree
    /\ api_pc' = "disconnect_clear"
    /\ \E ok \in SendOutcomes :
         wire' = IF transport = "Some" /\ ok
                 THEN Append(wire, create_logout_message) ELSE wire
    /\ UNCHANGED <<state_vars, transport, reset_on_disconnect, task_vars,
                   api_result, api_calls, now, link, peer, recv_vars,
                   store_vars, pool_heartbeat, acceptor_vars,
                   engine_vars, buffer_vars, message_vars>>

\* disconnect() with the transport lock again: transport None, Disconnected
DisconnectClear ==
    /\ api_pc = "disconnect_clear"
    /\ TransportLockFree
    /\ api_pc' = "idle"
    /\ api_result' = [call |-> "disconnect", ok |-> TRUE]
    /\ transport' = "None"
    /\ link' = IF transport = "Some" THEN "none" ELSE link
    /\ status' = "Disconnected"
    /\ UNCHANGED <<next_outgoing_seq, next_incoming_seq, test_request_counter,
                   last_send_time, last_receive_time, reset_on_disconnect,
                   task_vars, api_calls, now, peer, wire, recv_vars,
                   store_vars, pool_heartbeat, acceptor_vars,
                   engine_vars, buffer_vars, message_vars>>
    /\ state_file' = persist'

\* logout() with the transport lock: send Logout with `?`, status
\* Disconnected; the transport stays installed
LogoutFinish ==
    /\ api_pc = "logout"
    /\ TransportLockFree
    /\ api_pc' = "idle"
    /\ \E ok \in SendOutcomes :
         IF transport = "Some" /\ ~ok
         THEN /\ api_result' = [call |-> "logout", ok |-> FALSE]
              /\ UNCHANGED <<wire, status>>
         ELSE /\ wire' = IF transport = "Some"
                         THEN Append(wire, create_logout_message) ELSE wire
              /\ status' = "Disconnected"
              /\ api_result' = [call |-> "logout", ok |-> TRUE]
    /\ UNCHANGED <<next_outgoing_seq, next_incoming_seq, test_request_counter,
                   last_send_time, last_receive_time, transport,
                   reset_on_disconnect, task_vars, api_calls, now, link, peer,
                   recv_vars, store_vars, pool_heartbeat, acceptor_vars,
                   engine_vars, buffer_vars, message_vars>>
    /\ state_file' = persist'

\* ----------------------------------------------------------- Session::recover
\* the line of the file that load_messages reads last for sequence number k
LastLine(k) ==
    CHOOSE j \in DOMAIN file :
        /\ file[j].seq_num = k
        /\ \A h \in DOMAIN file : file[h].seq_num = k => h <= j

FileSeqs == {file[j].seq_num : j \in DOMAIN file}

FileVersions == {file[j].version : j \in DOMAIN file}

Max(S) == CHOOSE x \in S : \A y \in S : y <= x

\* MessageStore::load_messages: every line of the file goes into the index,
\* sequence_numbers becomes the largest sequence number read plus one and
\* version_counter the largest version read
LoadedIndex ==
    [k \in DOMAIN messages \cup FileSeqs |->
        IF k \in FileSeqs
        THEN [msg |-> file[LastLine(k)].msg, version |-> file[LastLine(k)].version]
        ELSE messages[k]]

LoadedSequenceNumbers ==
    IF FileSeqs # {} THEN Max(FileSeqs) + 1 ELSE sequence_numbers

LoadedVersionCounter ==
    IF FileVersions # {} THEN Max(FileVersions) ELSE version_counter

\* recover() up to its first wait for the transport lock: lock the state,
\* load_messages, and with reset_on_disconnect
\* SessionState::reset_sequence_numbers and MessageStore::reset_sequence_numbers
RecoverCall ==
    /\ CanCall
    /\ FreeSlots # {}
    /\ api_pc' = "recover_logout"
    /\ api_calls' = api_calls + 1
    /\ version_counter' = LoadedVersionCounter
    /\ IF reset_on_disconnect
       THEN /\ next_outgoing_seq' = 1
            /\ next_incoming_seq' = 1
            /\ sequence_numbers' = 1
            /\ messages' = EmptyIndex
            /\ file' = <<>>
       ELSE /\ messages' = LoadedIndex
            /\ sequence_numbers' = LoadedSequenceNumbers
            /\ UNCHANGED <<next_outgoing_seq, next_incoming_seq, file>>
    /\ UNCHANGED <<status, test_request_counter, last_send_time,
                   last_receive_time, transport, reset_on_disconnect, task_vars,
                   api_result, now, link, peer, wire, recv_vars, transactions,
                   store_result, pool_heartbeat, acceptor_vars,
                   engine_vars, buffer_vars, message_vars>>
    /\ state_file' = persist'

\* recover() called on a session none of whose tasks is alive
RecoverIdle ==
    /\ FreeSlots = Tasks
    /\ RecoverCall

\* recover() with the transport lock: best-effort Logout on the old transport
RecoverLogout ==
    /\ api_pc = "recover_logout"
    /\ TransportLockFree
    /\ api_pc' = "recover_connect"
    /\ \E ok \in SendOutcomes :
         wire' = IF transport = "Some" /\ ok
                 THEN Append(wire, create_logout_message) ELSE wire
    /\ UNCHANGED <<state_vars, transport, reset_on_disconnect, task_vars,
                   api_result, api_calls, now, link, peer, recv_vars,
                   store_vars, pool_heartbeat, acceptor_vars,
                   engine_vars, buffer_vars, message_vars>>

\* recover() with the transport lock again: transport None, status Recovering,
\* TcpStream::connect; Ok installs the new transport and unlocks the state,
\* Err sets status Error and returns the error
RecoverConnect ==
    /\ api_pc = "recover_connect"
    /\ TransportLockFree
    /\ \E connected \in BOOLEAN :
         /\ peer = "acceptor" => connected = (listener = "Some")
         /\ IF connected
            THEN /\ transport' = "Some"
                 /\ link' = "up"
                 /\ status' = "Recovering"
                 /\ api_pc' = "recover_initiate"
                 /\ UNCHANGED api_result
            ELSE /\ transport' = "None"
                 /\ link' = "refused"
                 /\ status' = "Error"
                 /\ api_pc' = "idle"
                 /\ api_result' = [call |-> "recover", ok |-> FALSE]
    /\ UNCHANGED <<next_outgoing_seq, next_incoming_seq, test_request_counter,
                   last_send_time, last_receive_time, reset_on_disconnect,
                   task_vars, api_calls, now, peer, wire, recv_vars, store_vars,
                   pool_heartbeat, acceptor_vars, engine_vars, buffer_vars, message_vars>>
    /\ state_file' = persist'

\* initiate_logon as recover() calls it: lock the state, status InitiateLogon,
\* update_send_time, unlock
RecoverInitiate ==
    /\ api_pc = "recover_initiate"
    /\ StateLockFree
    /\ api_pc' = "recover_send"
    /\ status' = "InitiateLogon"
    /\ last_send_time' = now
    /\ UNCHANGED <<next_outgoing_seq, next_incoming_seq, test_request_counter,
                   last_receive_time, transport, reset_on_disconnect, task_vars,
                   api_result, api_calls, now, link, peer, wire, recv_vars,
                   store_vars, pool_heartbeat, acceptor_vars,
                   engine_vars, buffer_vars, message_vars>>
    /\ state_file' = persist'

\* initiate_logon locks the transport and sends the Logon with `?`; after it
\* recover() spawns a monitor and a processor and returns Ok
RecoverSend ==
    /\ api_pc = "recover_send"
    /\ TransportLockFree
    /\ api_pc' = "idle"
    /\ \E ok \in SendOutcomes :
         IF transport = "Some" /\ ~ok
         THEN /\ api_result' = [call |-> "recover", ok |-> FALSE]
              /\ UNCHANGED <<wire, task_vars>>
         ELSE /\ wire' = IF transport = "Some"
                         THEN Append(wire, create_logon_message) ELSE wire
              /\ SpawnTasks
              /\ api_result' = [call |-> "recover", ok |-> TRUE]
    /\ UNCHANGED <<state_vars, transport, reset_on_disconnect, api_calls, now,
                   link, peer, recv_vars, store_vars, pool_heartbeat,
                   acceptor_vars, engine_vars, buffer_vars, message_vars>>

\* ------------------------------------------------------------- environment
\* the connection breaks: later reads and writes on it fail
LinkReset ==
    /\ link \in {"up", "closed"}
    /\ link' = "reset"
    /\ UNCHANGED <<state_vars, transport, reset_on_disconnect, task_vars,
                   api_vars, now, peer, wire, recv_vars, store_vars,
                   pool_heartbeat, acceptor_vars, engine_vars, buffer_vars, message_vars>>

\* the counterparty closes its end: later reads return end of file
PeerClose ==
    /\ peer = "counterparty"
    /\ link = "up"
    /\ link' = "closed"
    /\ UNCHANGED <<state_vars, transport, reset_on_disconnect, task_vars,
                   api_vars, now, peer, wire, recv_vars, store_vars,
                   pool_heartbeat, acceptor_vars, engine_vars, buffer_vars, message_vars>>

\* ----------------------------------------------------------------- Acceptor
\* Session::new as Acceptor::handle_connection calls it (comp ids are
\* sequences of characters, here shortened to three)
NewAcceptorSession ==
    [status |-> "Created", next_outgoing_seq |-> 1, next_incoming_seq |-> 1,
     transport |-> "None",
     config |-> [begin_string |-> "FIX.4.2",
                 sender_comp_id |-> <<"A", "C", "C">>,
                 target_comp_id |-> <<"I", "N", "I">>,
                 target_addr |-> "peer_addr", heart_bt_int |-> 30,
                 role |-> "Acceptor"]]

\* the accept loop takes the connection; handle_connection builds a Session,
\* pushes it on `sessions` and returns, which drops the socket
AcceptConnection ==
    /\ peer = "acceptor"
    /\ listener = "Some"
    /\ link = "up"
    /\ acceptor_sessions = <<>>
    /\ acceptor_sessions' = Append(acceptor_sessions, NewAcceptorSession)
    /\ link' = "closed"
    /\ UNCHANGED <<state_vars, transport, reset_on_disconnect, task_vars,
                   api_vars, now, peer, wire, recv_vars, store_vars,
                   pool_heartbeat, listener, engine_vars, buffer_vars, message_vars>>

\* Acceptor::start: bind the listener, spawn the accept loop
AcceptorStart ==
    /\ peer = "acceptor"
    /\ listener = "None"
    /\ acceptor_sessions = <<>>
    /\ link = "none"
    /\ listener' = "Some"
    /\ UNCHANGED <<state_vars, transport, reset_on_disconnect, task_vars,
                   api_vars, now, link, peer, wire, recv_vars, store_vars,
                   pool_heartbeat, acceptor_sessions, engine_vars, buffer_vars, message_vars>>

\* Session::stop on a session of the acceptor: Disconnecting, no transport to
\* take and so no Logout, Disconnected
stop(session) == [session EXCEPT !.status = "Disconnected"]

\* Acceptor::stop: abort the accept loop, drop the listener, stop every session;
\* a connection still waiting to be accepted is reset
AcceptorStop ==
    /\ peer = "acceptor"
    /\ listener = "Some"
    /\ listener' = "None"
    /\ acceptor_sessions' = [i \in DOMAIN acceptor_sessions |->
                                stop(acceptor_sessions[i])]
    /\ link' = IF link = "up" THEN "reset" ELSE link
    /\ UNCHANGED <<state_vars, transport, reset_on_disconnect, task_vars,
                   api_vars, now, peer, wire, recv_vars, store_vars,
                   pool_heartbeat, engine_vars, buffer_vars, message_vars>>

\* -------------------------------------------------------------- MessageStore
\* everything but the store: what a call of the store leaves alone
session_vars == <<state_vars, transport, reset_on_disconnect, task_vars,
                  api_vars, now, link, peer, wire, recv_vars, pool_heartbeat,
                  acceptor_vars, engine_vars, buffer_vars, message_vars>>

\* the messages an application hands to store_message
StoreInputs == {NewMessage(HEARTBEAT), NewMessage(NEW_ORDER_SINGLE)}

\* MessageStore::get_message: the message of the index entry, or None
NoMessage == [type |-> "", seq |-> ""]

get_message(seq_num) ==
    IF seq_num \in DOMAIN messages THEN messages[seq_num].msg ELSE NoMessage

\* a begin_transaction that takes the next version before it looks for a
\* transaction of the session
BeginTransactionVersionFirst ==
    /\ version_counter < MaxVersion
    /\ version_counter' = version_counter + 1
    /\ IF transactions # NoTransaction
       THEN /\ store_result' = [op |-> "begin_transaction", ok |-> FALSE]
            /\ UNCHANGED transactions
       ELSE /\ transactions' = [started |-> TRUE, version |-> version_counter + 1,
                                messages |-> <<>>]
            /\ store_result' = [op |-> "begin_transaction", ok |-> TRUE]
    /\ UNCHANGED <<messages, sequence_numbers, file, session_vars>>

\* MessageStore::begin_transaction: Err when the session has a transaction,
\* else the next version and an empty transaction
BeginTransaction ==
    /\ version_counter < MaxVersion
    /\ IF transactions # NoTransaction
       THEN /\ store_result' = [op |-> "begin_transaction", ok |-> FALSE]
            /\ UNCHANGED <<transactions, version_counter>>
       ELSE /\ version_counter' = version_counter + 1
            /\ transactions' = [started |-> TRUE, version |-> version_counter + 1,
                                messages |-> <<>>]
            /\ store_result' = [op |-> "begin_transaction", ok |-> TRUE]
    /\ UNCHANGED <<messages, sequence_numbers, file, session_vars>>

\* store_message as the application calls it
StoreMessage(seq_num, msg) ==
    /\ version_counter < MaxVersion
    /\ Len(transactions.messages) < MaxBuffered
    /\ store_message(seq_num, msg)
    /\ store_result' = [op |-> "store_message", ok |-> TRUE]
    /\ UNCHANGED session_vars

\* the index after the buffered messages are inserted in order, each with the
\* version of the transaction
RECURSIVE InsertAll(_, _, _)
InsertAll(index, buffered, version) ==
    IF buffered = <<>>
    THEN index
    ELSE InsertAll(Insert(index, Head(buffered).seq_num,
                          [msg |-> Head(buffered).msg, version |-> version]),
                   Tail(buffered), version)

\* the lines commit_transaction writes to the temporary file that it renames
\* to the session file
CommitLines(transaction) ==
    [j \in DOMAIN transaction.messages |->
        [seq_num |-> transaction.messages[j].seq_num,
         version |-> transaction.version,
         msg |-> transaction.messages[j].msg]]

\* the outcomes of writing the temporary file and renaming it
IoOutcomes == {"ok", "error"}

\* MessageStore::commit_transaction: Err without a transaction; else the
\* transaction is removed, and then its messages become the session file and
\* enter the index, unless writing or renaming the temporary file fails,
\* which returns the error
CommitTransaction ==
    /\ \E io \in IoOutcomes :
         IF transactions = NoTransaction
         THEN /\ store_result' = [op |-> "commit_transaction", ok |-> FALSE]
              /\ UNCHANGED <<transactions, messages, file>>
         ELSE /\ transactions' = NoTransaction
              /\ IF io = "ok"
                 THEN /\ file' = CommitLines(transactions)
                      /\ messages' = InsertAll(messages, transactions.messages,
                                               transactions.version)
                      /\ store_result' = [op |-> "commit_transaction",
                                          ok |-> TRUE]
                 ELSE /\ store_result' = [op |-> "commit_transaction",
                                          ok |-> FALSE]
                      /\ UNCHANGED <<messages, file>>
    /\ UNCHANGED <<version_counter, sequence_numbers, session_vars>>

\* MessageStore::rollback_transaction: Err without a transaction; else the
\* transaction is removed
RollbackTransaction ==
    /\ IF transactions = NoTransaction
       THEN store_result' = [op |-> "rollback_transaction", ok |-> FALSE]
       ELSE store_result' = [op |-> "rollback_transaction", ok |-> TRUE]
    /\ transactions' = NoTransaction
    /\ UNCHANGED <<messages, version_counter, sequence_numbers, file,
                   session_vars>>

\* MessageStore::load_messages as the application calls it
LoadMessages ==
    /\ messages' = LoadedIndex
    /\ sequence_numbers' = LoadedSequenceNumbers
    /\ version_counter' = LoadedVersionCounter
    /\ store_result' = [op |-> "load_messages", ok |-> TRUE]
    /\ UNCHANGED <<transactions, file, session_vars>>

\* MessageStore::get_next_seq_num: the session's entry of sequence_numbers,
\* or 1 when it has none
get_next_seq_num == IF sequence_numbers = 0 THEN 1 ELSE sequence_numbers

\* ---------------------------------------------------------------- Transport
\* a byte is a one-character string; SOH is the byte 0x01
SOH == "SOH"

AsciiDigits == {"0", "1", "2", "3", "4", "5", "6", "7", "8", "9"}

\* the bytes of one field: tag=value SOH
FieldBytes(tag, value) == tag \o <<"=">> \o value \o <<SOH>>

\* frames a peer sends, cut down to BeginString(8), MsgType(35), one body
\* field and CheckSum(10): a Heartbeat, a Logon with HeartBtInt(108) and a
\* NewOrderSingle with MinQty(110)
HeartbeatFrame ==
    FieldBytes(<<"8">>, <<"F">>) \o FieldBytes(<<"3", "5">>, <<"0">>)
    \o FieldBytes(<<"1", "0">>, <<"0", "4", "2">>)

LogonFrame ==
    FieldBytes(<<"8">>, <<"F">>) \o FieldBytes(<<"3", "5">>, <<"A">>)
    \o FieldBytes(<<"1", "0", "8">>, <<"3", "0">>)
    \o FieldBytes(<<"1", "0">>, <<"0", "0", "7">>)

OrderFrame ==
    FieldBytes(<<"8">>, <<"F">>) \o FieldBytes(<<"3", "5">>, <<"D">>)
    \o FieldBytes(<<"1", "1", "0">>, <<"1", "0", "0">>)
    \o FieldBytes(<<"1", "0">>, <<"1", "2", "3">>)

Frames == {HeartbeatFrame, LogonFrame, OrderFrame}

\* the proper, non-empty prefixes of a frame
PartialFrames(f) == {SubSeq(f, 1, k) : k \in 1..(Len(f) - 1)}

Min(S) == CHOOSE x \in S : \A y \in S : x <= y

NoFrame == [found |-> FALSE, msg_str |-> <<>>, consumed |-> 0]

\* MessageParser::extract_complete_message: from the first "8=" in the
\* buffer to the SOH that follows three digits after the first "10=" behind
\* it; the count returned is the index behind that SOH
extract_complete_message(b) ==
    LET starts == {i \in 1..(Len(b) - 1) : b[i] = "8" /\ b[i + 1] = "="}
    IN  IF starts = {}
        THEN NoFrame
        ELSE LET start == Min(starts)
                 checksums == {i \in start..(Len(b) - 2) :
                                  b[i] = "1" /\ b[i + 1] = "0" /\ b[i + 2] = "="}
             IN  IF checksums = {}
                 THEN NoFrame
                 ELSE LET checksum_start == Min(checksums) + 3
                          ends == {j \in checksum_start..Len(b) :
                                      /\ b[j] = SOH
                                      /\ j - checksum_start = 3
                                      /\ \A d \in checksum_start..(j - 1) :
                                            b[d] \in AsciiDigits}
                      IN  IF ends = {}
                          THEN NoFrame
                          ELSE [found |-> TRUE,
                                msg_str |-> SubSeq(b, start, Min(ends)),
                                consumed |-> Min(ends)]

\* data.split(SOH): the fields of the text, as the pairs (first, last) of
\* the positions they span
FieldSpans(data) ==
    LET cuts == {0, Len(data) + 1} \cup {i \in DOMAIN data : data[i] = SOH}
    IN  {<<a + 1, Min({x \in cuts : x > a}) - 1>> :
            a \in cuts \ {Len(data) + 1}}

\* MessageParser::parse returns Ok: every non-empty field is tag=value with
\* a numeric tag, and BeginString(8) and MsgType(35) are among them
parse_ok(data) ==
    LET fields == {SubSeq(data, sp[1], sp[2]) :
                      sp \in {x \in FieldSpans(data) : x[1] <= x[2]}}
        eq(f) == {i \in DOMAIN f : f[i] = "="}
        tag(f) == SubSeq(f, 1, Min(eq(f)) - 1)
    IN  /\ \A f \in fields :
              /\ Cardinality(eq(f)) = 1
              /\ tag(f) # <<>>
              /\ \A i \in DOMAIN tag(f) : tag(f)[i] \in AsciiDigits
        /\ \E f \in fields : Cardinality(eq(f)) = 1 /\ tag(f) = <<"8">>
        /\ \E f \in fields : Cardinality(eq(f)) = 1 /\ tag(f) = <<"3", "5">>

\* Transport::receive: one read of n bytes is appended to the buffer; a
\* frame found in the buffer is drained and parsed, Ok(Some(message)) or the
\* parse error; no frame is Ok(None), as is a read of 0 bytes
Receive ==
    /\ \E n \in (IF unread = <<>> THEN {0} ELSE 1..Len(unread)) :
         LET data == buffer \o SubSeq(unread, 1, n)
             e == extract_complete_message(data)
         IN  /\ unread' = SubSeq(unread, n + 1, Len(unread))
             /\ IF n = 0
                THEN /\ receive_result' = [ok |-> TRUE, frame |-> <<>>]
                     /\ UNCHANGED buffer
                ELSE IF e.found
                THEN /\ buffer' = SubSeq(data, e.consumed + 1, Len(data))
                     /\ receive_result' =
                           IF parse_ok(e.msg_str)
                           THEN [ok |-> TRUE, frame |-> e.msg_str]
                           ELSE [ok |-> FALSE, frame |-> <<>>]
                ELSE /\ buffer' = data
                     /\ receive_result' = [ok |-> TRUE, frame |-> <<>>]
    /\ UNCHANGED <<engine_vars, state_vars, transport, reset_on_disconnect,
                   task_vars, api_vars, now, link, peer, wire, recv_vars,
                   store_vars, pool_heartbeat, acceptor_vars, message_vars>>

\* ------------------------------------------------------------------ Message
\* message/field.rs: the tags the Message code names
BEGIN_STRING == 8
BODY_LENGTH == 9
MSG_TYPE == 35
SENDER_COMP_ID == 49
TARGET_COMP_ID == 56
MSG_SEQ_NUM == 34
SENDING_TIME == 52
CHECKSUM == 10
CL_ORD_ID == 11
SYMBOL == 55
NO_MD_ENTRIES == 268
MD_ENTRY_TYPE == 269

\* the decimal digits and the capital letters, in the order of their bytes
DigitChars == <<"0", "1", "2", "3", "4", "5", "6", "7", "8", "9">>

UpperChars == <<"A", "B", "C", "D", "E", "F", "G", "H", "I", "J", "K", "L", "M",
                "N", "O", "P", "Q", "R", "S", "T", "U", "V", "W", "X", "Y", "Z">>

IndexIn(seq, c) == CHOOSE i \in DOMAIN seq : seq[i] = c

\* `b as u32` of a byte of the text
Byte(c) ==
    CASE c = SOH -> 1
      [] c = "-" -> 45
      [] c = "." -> 46
      [] c = ":" -> 58
      [] c = "=" -> 61
      [] c \in AsciiDigits -> 47 + IndexIn(DigitChars, c)
      [] OTHER -> 64 + IndexIn(UpperChars, c)

\* format!("{}", n) of a number that is not negative
RECURSIVE Display(_)
Display(n) ==
    IF n < 10 THEN <<DigitChars[n + 1]>>
    ELSE Display(n \div 10) \o <<DigitChars[(n % 10) + 1]>>

\* format!("{:0w}", n): the numeral, filled with zeros up to w digits
RECURSIVE Padded(_, _)
Padded(n, w) ==
    IF Len(Display(n)) >= w THEN Display(n)
    ELSE <<"0">> \o Padded(n, w - 1)

\* chrono's format("%Y%m%d-%H:%M:%S") of a clock reading within the first
\* hour of the model's clock
Timestamp(t) ==
    <<"1", "9", "7", "0", "0", "1", "0", "1", "-", "0", "0", ":">>
    \o Padded((t \div 60) % 60, 2) \o <<":">> \o Padded(t % 60, 2)

\* Message::new, set_default_headers: BeginString, MsgType, SendingTime,
\* SenderCompID, TargetCompID and MsgSeqNum are set, there is no group
Message_new(msg_type, t) ==
    [msg_type |-> msg_type,
     fields |-> [tag \in {BEGIN_STRING, MSG_TYPE, SENDING_TIME, SENDER_COMP_ID,
                          TARGET_COMP_ID, MSG_SEQ_NUM} |->
                   CASE tag = BEGIN_STRING -> <<"F", "I", "X", ".", "4", ".", "2">>
                     [] tag = MSG_TYPE -> msg_type
                     [] tag = SENDING_TIME -> Timestamp(t)
                     [] tag = SENDER_COMP_ID -> <<"S", "E", "N", "D", "E", "R">>
                     [] tag = TARGET_COMP_ID -> <<"T", "A", "R", "G", "E", "T">>
                     [] OTHER -> <<"1">>],
     groups |-> <<>>]

\* Message::set_field of a message without formatters: the field replaces
\* the one of its tag; msg_type stays what new() was given
set_field(m, tag, value) == [m EXCEPT !.fields = Insert(m.fields, tag, value)]

\* Message::add_group: an empty RepeatingGroup under the tag
add_group(m, tag, delimiter_tag, required_tags) ==
    [m EXCEPT !.groups = Insert(m.groups, tag,
                                [delimiter_tag |-> delimiter_tag,
                                 required_tags |-> required_tags,
                                 entries |-> <<>>])]

\* format!("{}={}\u{1}", tag, value)
FieldText(tag, value) == Display(tag) \o <<"=">> \o value \o <<SOH>>

\* the fields of the message in the order of their tags, BeginString,
\* BodyLength and CheckSum left out
RECURSIVE SortedFieldsText(_, _)
SortedFieldsText(m, tags) ==
    IF tags = {} THEN <<>>
    ELSE FieldText(Min(tags), m.fields[Min(tags)])
         \o SortedFieldsText(m, tags \ {Min(tags)})

\* str::find: the position of the first occurrence of pat in s, 0 for none
Find(s, pat) ==
    LET at == {i \in 1..(Len(s) - Len(pat) + 1) :
                  SubSeq(s, i, i + Len(pat) - 1) = pat}
    IN  IF at = {} THEN 0 ELSE Min(at)

\* str::replace: every occurrence of pat in s, from the left, becomes rep
RECURSIVE Replace(_, _, _)
Replace(s, pat, rep) ==
    IF Find(s, pat) = 0 THEN s
    ELSE SubSeq(s, 1, Find(s, pat) - 1) \o rep
         \o Replace(SubSeq(s, Find(s, pat) + Len(pat), Len(s)), pat, rep)

\* the sum of the bytes s[lo], ..., s[hi]
RECURSIVE ByteSum(_, _, _)
ByteSum(s, lo, hi) ==
    IF lo > hi THEN 0
    ELSE IF lo = hi THEN Byte(s[lo])
    ELSE ByteSum(s, lo, (lo + hi) \div 2) + ByteSum(s, (lo + hi) \div 2 + 1, hi)

\* calculate_checksum: the sum of the bytes modulo 256
calculate_checksum(s) == ByteSum(s, 1, Len(s)) % 256

BodyLengthPlaceholder == <<"9", "=", "0", "0", "0", "0", SOH>>

\* Message::to_string: 8=, the BodyLength placeholder, 35= with msg_type,
\* the fields sorted by tag without 8, 9 and 10, then the placeholder
\* replaced by the length counted from "9=", then 10= with the checksum;
\* the groups are not written
Message_to_string(m) ==
    IF BEGIN_STRING \notin DOMAIN m.fields
    THEN NotSerialized
    ELSE LET msg == <<"8", "=">> \o m.fields[BEGIN_STRING] \o <<SOH>>
                    \o BodyLengthPlaceholder
                    \o <<"3", "5", "=">> \o m.msg_type \o <<SOH>>
                    \o SortedFieldsText(m, DOMAIN m.fields
                                           \ {BEGIN_STRING, BODY_LENGTH, CHECKSUM})
             body_start == IF Find(msg, <<"9", "=">>) = 0 THEN 0
                           ELSE Find(msg, <<"9", "=">>) - 1
             body_length == Len(msg) - body_start
             with_length == Replace(msg, BodyLengthPlaceholder,
                                    <<"9", "=">> \o Padded(body_length, 4) \o <<SOH>>)
         IN  [ok |-> TRUE,
              text |-> with_length \o <<"1", "0", "=">>
                       \o Padded(calculate_checksum(with_length), 3) \o <<SOH>>]

\* str::split: the pieces of s between the occurrences of the character sep
RECURSIVE Split(_, _)
Split(s, sep) ==
    LET at == {i \in DOMAIN s : s[i] = sep}
    IN  IF at = {} THEN <<s>>
        ELSE <<SubSeq(s, 1, Min(at) - 1)>>
             \o Split(SubSeq(s, Min(at) + 1, Len(s)), sep)

\* str::parse::<i32> of a text of digits (no sign)
RECURSIVE DigitsValue(_)
DigitsValue(s) ==
    IF s = <<>> THEN 0
    ELSE 10 * DigitsValue(SubSeq(s, 1, Len(s) - 1))
         + IndexIn(DigitChars, s[Len(s)]) - 1

ParseNumber(s) ==
    IF s # <<>> /\ \A i \in DOMAIN s : s[i] \in AsciiDigits
    THEN [ok |-> TRUE, val |-> DigitsValue(s)]
    ELSE [ok |-> FALSE, val |-> 0]

\* the second pass of parse: set_field for every field, in their order
RECURSIVE SetParsedFields(_, _)
SetParsedFields(m, pairs) ==
    IF pairs = <<>> THEN m
    ELSE SetParsedFields(set_field(m, ParseNumber(Head(pairs)[1]).val,
                                   Head(pairs)[2]),
                         Tail(pairs))

ParseError == [ok |-> FALSE, msg |-> NoOriginal, called |-> TRUE]

\* MessageParser::parse at clock reading t: Err for a field that '=' does not
\* split into two parts or whose tag is no number, and without BeginString
\* or MsgType; else Message::new of the last MsgType read, then every field
\* read is set, BodyLength and CheckSum among them; Err when NoMDEntries
\* does not equal the number of MDEntryType fields
parse(data, t) ==
    LET all == Split(data, SOH)
        pairs == [i \in 1..Cardinality({j \in DOMAIN all : all[j] # <<>>}) |->
                    Split(all[CHOOSE j \in DOMAIN all :
                                 /\ all[j] # <<>>
                                 /\ Cardinality({k \in 1..j : all[k] # <<>>}) = i],
                          "=")]
        tagged(tag) == {i \in DOMAIN pairs : /\ ParseNumber(pairs[i][1]).ok
                                             /\ ParseNumber(pairs[i][1]).val = tag}
        expected == IF tagged(NO_MD_ENTRIES) = {}
                    THEN [ok |-> FALSE, val |-> 0]
                    ELSE ParseNumber(pairs[Max(tagged(NO_MD_ENTRIES))][2])
    IN  IF \E i \in DOMAIN pairs : Len(pairs[i]) # 2
        THEN ParseError
        ELSE IF tagged(BEGIN_STRING) = {} \/ tagged(MSG_TYPE) = {}
        THEN ParseError
        ELSE IF \E i \in DOMAIN pairs : ~ParseNumber(pairs[i][1]).ok
        THEN ParseError
        ELSE IF expected.ok /\ Cardinality(tagged(MD_ENTRY_TYPE)) # expected.val
        THEN ParseError
        ELSE [ok |-> TRUE,
              msg |-> SetParsedFields(
                          Message_new(pairs[Max(tagged(MSG_TYPE))][2], t), pairs),
              called |-> TRUE]

\* the message types and the fields an application gives its message
MessageTypes == {<<"0">>, <<"D">>}

FieldInputs ==
    {<<CL_ORD_ID, <<"1", "2", "3", "4", "5">>>>,
     <<SYMBOL, <<"A", "=", "B">>>>,
     <<MSG_TYPE, <<"8">>>>,
     <<NO_MD_ENTRIES, <<"1">>>>,
     <<CHECKSUM, <<"0", "0", "0">>>>}

\* everything but the application's message
no_message_vars == <<state_vars, transport, reset_on_disconnect, task_vars,
                     api_vars, now, link, peer, wire, recv_vars, store_vars,
                     pool_heartbeat, acceptor_vars, engine_vars, buffer_vars>>

\* Message::new
MessageNew(msg_type) ==
    /\ original' = Message_new(msg_type, now)
    /\ msg_str' = NotSerialized
    /\ parsed' = NotParsed
    /\ UNCHANGED no_message_vars

\* Message::set_field on the message under construction
SetField(tag, value) ==
    /\ original # NoOriginal
    /\ original' = set_field(original, tag, value)
    /\ msg_str' = NotSerialized
    /\ parsed' = NotParsed
    /\ UNCHANGED no_message_vars

\* Message::add_group on the message under construction
AddGroup ==
    /\ original # NoOriginal
    /\ original' = add_group(original, NO_MD_ENTRIES, MD_ENTRY_TYPE, <<>>)
    /\ msg_str' = NotSerialized
    /\ parsed' = NotParsed
    /\ UNCHANGED no_message_vars

\* original.to_string() and Message::from_string of the text
RoundTrip ==
    /\ original # NoOriginal
    /\ msg_str' = Message_to_string(original)
    /\ parsed' = IF msg_str'.ok THEN parse(msg_str'.text, now) ELSE NotParsed
    /\ UNCHANGED <<original, no_message_vars>>

\* ---------------------------------------------------------------- FixEngine
\* a SessionConfig that passes validate, and the ways the engine is handed
\* one that differs from it (comp ids are sequences of characters)
ValidConfig ==
    [begin_string |-> "FIX.4.2", sender_comp_id |-> <<"S">>,
     target_comp_id |-> <<"T">>, target_addr |-> "host:port",
     heart_bt_int |-> 30, role |-> "Initiator"]

Configs ==
    {ValidConfig,
     [ValidConfig EXCEPT !.begin_string = ""],
     [ValidConfig EXCEPT !.sender_comp_id = <<>>],
     [ValidConfig EXCEPT !.target_addr = ""],
     [ValidConfig EXCEPT !.heart_bt_int = 0],
     [ValidConfig EXCEPT !.sender_comp_id = <<"S", "_", "X">>],
     [ValidConfig EXCEPT !.role = "Acceptor"]}

\* SessionConfig::validate returns Ok
validate(config) ==
    /\ config.begin_string # ""
    /\ config.sender_comp_id # <<>>
    /\ config.target_comp_id # <<>>
    /\ config.target_addr # ""
    /\ config.heart_bt_int # 0

is_initiator(config) == config.role = "Initiator"

is_acceptor(config) == config.role = "Acceptor"

\* Session::session_id: format!("{}_{}", sender_comp_id, target_comp_id)
session_id(config) == config.sender_comp_id \o <<"_">> \o config.target_comp_id

\* how Session::start can end: TcpStream::connect and the Logon write succeed
\* or one of them returns an error
ConnectOutcomes == {"ok", "error"}

\* the sessions without the first one that has the id
RemoveFirst(sessions, id) ==
    LET matches == {i \in DOMAIN sessions : session_id(sessions[i].config) = id}
    IN  IF matches = {}
        THEN sessions
        ELSE LET pos == CHOOSE i \in matches : \A j \in matches : i <= j
             IN  [i \in 1..(Len(sessions) - 1) |->
                     IF i < pos THEN sessions[i] ELSE sessions[i + 1]]

\* Initiator::start_session: Err for a config that is not an initiator's;
\* else the session is pushed and started, and when start fails the first
\* session with its id is removed and the error returned
start_session(sessions, config, outcome) ==
    IF config.role # "Initiator"
    THEN [sessions |-> sessions, ok |-> FALSE]
    ELSE IF outcome = "ok" /\ config.target_addr # ""
    THEN [sessions |-> Append(sessions, [config |-> config, started |-> TRUE]),
          ok |-> TRUE]
    ELSE [sessions |-> RemoveFirst(Append(sessions, [config |-> config,
                                                     started |-> FALSE]),
                                   session_id(config)),
          ok |-> FALSE]

\* FixEngine::add_session: start_session for an initiator's config, Ok
\* without doing anything for any other
AddSession(config, outcome) ==
    /\ engine_result.n < MaxEngineCalls
    /\ Len(initiator_sessions) < MaxSessions
    /\ LET r == IF is_initiator(config)
                THEN start_session(initiator_sessions, config, outcome)
                ELSE [sessions |-> initiator_sessions, ok |-> TRUE]
       IN  /\ initiator_sessions' = r.sessions
           /\ engine_result' = [call |-> "add_session", ok |-> r.ok,
                                n |-> engine_result.n + 1, config |-> config]
    /\ UNCHANGED <<engine_config, state_vars, transport, reset_on_disconnect,
                   task_vars, api_vars, now, link, peer, wire, recv_vars,
                   store_vars, pool_heartbeat, acceptor_vars, buffer_vars, message_vars>>

\* the first loop of FixEngine::start: start_session for every initiator of
\* the configuration, in order, until one returns Err
RECURSIVE StartInitiators(_, _, _)
StartInitiators(configs, sessions, outcomes) ==
    IF configs = <<>>
    THEN [sessions |-> sessions, ok |-> TRUE]
    ELSE IF is_initiator(Head(configs))
    THEN LET r == start_session(sessions, Head(configs), Head(outcomes))
         IN  IF r.ok
             THEN StartInitiators(Tail(configs), r.sessions, Tail(outcomes))
             ELSE r
    ELSE StartInitiators(Tail(configs), sessions, Tail(outcomes))

\* the second loop of FixEngine::start: Acceptor::start for every acceptor of
\* the configuration; binding fails for an empty address and for one a
\* listener of this engine holds
RECURSIVE StartAcceptors(_, _)
StartAcceptors(configs, l) ==
    IF configs = <<>>
    THEN [listener |-> l, ok |-> TRUE]
    ELSE IF is_acceptor(Head(configs))
    THEN IF Head(configs).target_addr = "" \/ l = "Some"
         THEN [listener |-> l, ok |-> FALSE]
         ELSE StartAcceptors(Tail(configs), "Some")
    ELSE StartAcceptors(Tail(configs), l)

\* FixEngine::start
EngineStart ==
    /\ engine_result.n < MaxEngineCalls
    /\ Len(initiator_sessions) + Len(engine_config) <= MaxSessions
    /\ \E outcomes \in [DOMAIN engine_config -> ConnectOutcomes] :
         LET r == StartInitiators(engine_config, initiator_sessions, outcomes)
             a == StartAcceptors(engine_config, listener)
         IN  /\ initiator_sessions' = r.sessions
             /\ listener' = IF r.ok THEN a.listener ELSE listener
             /\ engine_result' = [call |-> "start", ok |-> r.ok /\ a.ok,
                                  n |-> engine_result.n + 1,
                                  config |-> ValidConfig]
    /\ UNCHANGED <<engine_config, state_vars, transport, reset_on_disconnect,
                   task_vars, api_vars, now, link, peer, wire, recv_vars,
                   store_vars, pool_heartbeat, acceptor_sessions, buffer_vars, message_vars>>

\* the accept loop takes a connection of some client and
\* Acceptor::handle_connection pushes a session for it
HandleConnection ==
    /\ listener = "Some"
    /\ Len(acceptor_sessions) < MaxSessions
    /\ acceptor_sessions' = Append(acceptor_sessions, NewAcceptorSession)
    /\ UNCHANGED <<engine_vars, state_vars, transport, reset_on_disconnect,
                   task_vars, api_vars, now, link, peer, wire, recv_vars,
                   store_vars, pool_heartbeat, listener, buffer_vars, message_vars>>

\* FixEngine::get_session_ids: the ids of the initiator's sessions, then
\* those of the acceptor's
get_session_ids ==
    [i \in DOMAIN initiator_sessions |-> session_id(initiator_sessions[i].config)]
    \o [i \in DOMAIN acceptor_sessions |-> session_id(acceptor_sessions[i].config)]

\* session_id.split('_').collect().len()
SplitParts(id) == Cardinality({i \in DOMAIN id : id[i] = "_"}) + 1

\* FixEngine::get_session: ConfigError unless the id splits in two parts at
\* '_'; else the first session with the id, the initiator's before the
\* acceptor's, or SessionNotFound
get_session(id) ==
    IF SplitParts(id) # 2
    THEN [ok |-> FALSE, error |-> "ConfigError"]
    ELSE IF \E i \in DOMAIN get_session_ids : get_session_ids[i] = id
    THEN [ok |-> TRUE, error |-> ""]
    ELSE [ok |-> FALSE, error |-> "SessionNotFound"]

\* -------------------------------------------------------------- SessionState
\* what a mutator of SessionState leaves alone, the clock apart
outside_state == <<transport, reset_on_disconnect, task_vars, api_vars, link,
                   peer, wire, recv_vars, store_vars, pool_heartbeat,
                   acceptor_vars, engine_vars, buffer_vars, message_vars>>

Statuses == {"Created", "Connecting", "InitiateLogon", "ResendRequest",
             "LogonReceived", "Connected", "Disconnecting", "Disconnected",
             "Error", "Recovering"}

\* SessionState::set_status
set_status(s) ==
    /\ status' = s
    /\ UNCHANGED <<next_outgoing_seq, next_incoming_seq, test_request_counter,
                   last_send_time, last_receive_time, now, outside_state>>
    /\ state_file' = persist'

\* SessionState::increment_outgoing_seq
increment_outgoing_seq ==
    /\ next_outgoing_seq < MaxSeq
    /\ next_outgoing_seq' = next_outgoing_seq + 1
    /\ UNCHANGED <<status, next_incoming_seq, test_request_counter,
                   last_send_time, last_receive_time, now, outside_state>>
    /\ state_file' = persist'

\* SessionState::increment_incoming_seq
increment_incoming_seq ==
    /\ next_incoming_seq < MaxSeq
    /\ next_incoming_seq' = next_incoming_seq + 1
    /\ UNCHANGED <<status, next_outgoing_seq, test_request_counter,
                   last_send_time, last_receive_time, now, outside_state>>
    /\ state_file' = persist'

\* SessionState::increment_test_request_counter
increment_test_request_counter ==
    /\ test_request_counter < MaxCounter
    /\ test_request_counter' = test_request_counter + 1
    /\ UNCHANGED <<status, next_outgoing_seq, next_incoming_seq,
                   last_send_time, last_receive_time, now, outside_state>>
    /\ state_file' = persist'

\* SessionState::reset_test_request_counter
reset_test_request_counter ==
    /\ test_request_counter' = 0
    /\ UNCHANGED <<status, next_outgoing_seq, next_incoming_seq,
                   last_send_time, last_receive_time, now, outside_state>>
    /\ state_file' = persist'

\* the instants SystemTime::now() can return from now on
ClockReadings == {t \in now..(Epoch + MaxElapsed) : t <= now + HeartBtInt}

\* SessionState::update_send_time
update_send_time ==
    /\ \E t \in ClockReadings :
         /\ now' = t
         /\ last_send_time' = t
    /\ UNCHANGED <<status, next_outgoing_seq, next_incoming_seq,
                   test_request_counter, last_receive_time, outside_state>>
    /\ state_file' = persist'

\* an update_receive_time that leaves the state file as it is
update_receive_time_unsaved ==
    /\ \E t \in ClockReadings :
         /\ now' = t
         /\ last_receive_time' = t
    /\ UNCHANGED <<status, next_outgoing_seq, next_incoming_seq,
                   test_request_counter, last_send_time, outside_state>>
    /\ UNCHANGED state_file

\* SessionState::update_receive_time
update_receive_time ==
    /\ \E t \in ClockReadings :
         /\ now' = t
         /\ last_receive_time' = t
    /\ UNCHANGED <<status, next_outgoing_seq, next_incoming_seq,
                   test_request_counter, last_send_time, outside_state>>
    /\ state_file' = persist'

\* SessionState::reset_sequence_numbers
reset_sequence_numbers ==
    /\ next_outgoing_seq' = 1
    /\ next_incoming_seq' = 1
    /\ UNCHANGED <<status, test_request_counter, last_send_time,
                   last_receive_time, now, outside_state>>
    /\ state_file' = persist'

\* ------------------------------------------------------------ specifications
\* one session, its two tasks and a FIX counterparty
Next ==
    \/ StartConnect
    \/ ConnectFail
    \/ ConnectOk
    \/ \E i \in Tasks : HbTick(i)
    \/ \E i \in Tasks : HbTestRequest(i)
    \/ \E i \in Tasks : HbStatusCheck(i)
    \/ \E i \in Tasks : HbHeartbeat(i)
    \/ \E i \in Tasks : ProcCheck(i)
    \/ \E i \in Tasks : ProcEnter(i)
    \/ \E i \in Tasks : \E msg \in PeerMessages : ProcReceive(i, msg)
    \/ \E i \in Tasks : ProcRecvNone(i)
    \/ \E i \in Tasks : ProcRecvError(i)
    \/ \E i \in Tasks : ProcRecvInvalid(i)
    \/ LinkReset
    \/ PeerClose

Spec == Init /\ [][Next]_vars

\* the steps of the spawned tasks; a task waiting for a mutex gets it once the
\* mutex is released (tokio's Mutex is fair)
TaskFairness ==
    /\ SF_vars(\E i \in Tasks : HbTick(i))
    /\ SF_vars(\E i \in Tasks : HbTestRequest(i))
    /\ SF_vars(\E i \in Tasks : HbStatusCheck(i))
    /\ SF_vars(\E i \in Tasks : HbHeartbeat(i))
    /\ SF_vars(\E i \in Tasks : ProcCheck(i))
    /\ SF_vars(\E i \in Tasks : ProcEnter(i))
    /\ WF_vars(\E i \in Tasks : ProcRecvNone(i))
    /\ SF_vars(\E i \in Tasks : ProcRecvError(i))

\* an initiator Session whose target_addr is served by this engine's Acceptor
InitPair ==
    /\ InitSession
    /\ peer = "acceptor"
    /\ reset_on_disconnect = TRUE
    /\ engine_config = <<>>
    /\ unread = <<>>

NextPair ==
    \/ AcceptorStart
    \/ AcceptorStop
    \/ StartConnect
    \/ ConnectFail
    \/ ConnectOk
    \/ AcceptConnection
    \/ \E i \in Tasks : HbTick(i)
    \/ \E i \in Tasks : HbTestRequest(i)
    \/ \E i \in Tasks : HbStatusCheck(i)
    \/ \E i \in Tasks : ProcCheck(i)
    \/ \E i \in Tasks : ProcEnter(i)
    \/ \E i \in Tasks : ProcRecvNone(i)
    \/ \E i \in Tasks : ProcRecvError(i)
    \/ LinkReset

\* every spawned task and the accept loop keep being scheduled
PairSpec ==
    /\ InitPair
    /\ [][NextPair]_vars
    /\ WF_vars(AcceptorStart)
    /\ WF_vars(StartConnect)
    /\ WF_vars(AcceptConnection)
    /\ TaskFairness

\* the frames of the counterparty that the session's control flow tells apart
ControlFrames ==
    {m \in PeerMessages :
        /\ m.possDup = ""
        /\ m.seq \in {"1", "x"}
        /\ \/ m.type \in {LOGON, LOGOUT}
           \/ m.type = TEST_REQUEST /\ m.testReqId # NoId}

\* a session under an application that also calls stop(), disconnect(),
\* logout() and recover()
InitApi ==
    /\ InitSession
    /\ peer = "counterparty"
    /\ reset_on_disconnect \in BOOLEAN
    /\ engine_config = <<>>
    /\ unread = <<>>

NextApi ==
    \/ StartConnect
    \/ ConnectFail
    \/ ConnectOk
    \/ \E call \in {"stop", "disconnect", "logout"} : CallShutdown(call)
    \/ StopFinish
    \/ DisconnectSend
    \/ DisconnectClear
    \/ LogoutFinish
    \/ RecoverIdle
    \/ RecoverLogout
    \/ RecoverConnect
    \/ RecoverInitiate
    \/ RecoverSend
    \/ \E i \in Tasks : HbTick(i)
    \/ \E i \in Tasks : HbTestRequest(i)
    \/ \E i \in Tasks : HbStatusCheck(i)
    \/ \E i \in Tasks : HbHeartbeat(i)
    \/ \E i \in Tasks : ProcCheck(i)
    \/ \E i \in Tasks : ProcEnter(i)
    \/ \E i \in Tasks : \E msg \in ControlFrames : ProcReceive(i, msg)
    \/ \E i \in Tasks : ProcRecvNone(i)
    \/ \E i \in Tasks : ProcRecvError(i)
    \/ LinkReset
    \/ PeerClose

\* a call that waits for a mutex gets it once the mutex is released
ApiFairness ==
    /\ WF_vars(ConnectOk \/ ConnectFail)
    /\ SF_vars(StopFinish)
    /\ SF_vars(DisconnectSend)
    /\ SF_vars(DisconnectClear)
    /\ SF_vars(LogoutFinish)
    /\ SF_vars(RecoverLogout)
    /\ SF_vars(RecoverConnect)
    /\ SF_vars(RecoverInitiate)
    /\ SF_vars(RecoverSend)

ApiSpec == InitApi /\ [][NextApi]_vars /\ TaskFairness /\ ApiFairness

\* a session whose peer stays silent or closes the connection, and an
\* application that calls recover() at any time after start()
NextRecover ==
    \/ StartConnect
    \/ ConnectOk
    \/ RecoverCall
    \/ RecoverLogout
    \/ RecoverConnect
    \/ RecoverInitiate
    \/ RecoverSend
    \/ \E i \in Tasks : HbTick(i)
    \/ \E i \in Tasks : HbTestRequest(i)
    \/ \E i \in Tasks : HbStatusCheck(i)
    \/ \E i \in Tasks : ProcCheck(i)
    \/ \E i \in Tasks : ProcEnter(i)
    \/ \E i \in Tasks : ProcRecvNone(i)
    \/ PeerClose

RecoverSpec == Init /\ [][NextRecover]_vars

\* an application that builds a message, serializes it and parses the text
NextRoundTrip ==
    \/ \E msg_type \in MessageTypes : MessageNew(msg_type)
    \/ \E f \in FieldInputs : SetField(f[1], f[2])
    \/ AddGroup
    \/ RoundTrip

RoundTripSpec == Init /\ [][NextRoundTrip]_vars

\* the MessageStore under an application that stores with and without
\* transactions
NextStore ==
    \/ BeginTransaction
    \/ \E seq_num \in 1..MaxSeq : \E msg \in StoreInputs : StoreMessage(seq_num, msg)
    \/ CommitTransaction
    \/ RollbackTransaction
    \/ LoadMessages

StoreSpec == Init /\ [][NextStore]_vars

\* a SessionState under any sequence of its mutators
NextState ==
    \/ \E s \in Statuses : set_status(s)
    \/ increment_outgoing_seq
    \/ increment_incoming_seq
    \/ increment_test_request_counter
    \/ reset_test_request_counter
    \/ update_send_time
    \/ update_receive_time
    \/ reset_sequence_numbers

StateSpec == Init /\ [][NextState]_vars

\* the engine under an application that adds sessions and starts it, and
\* clients that connect to its acceptor
InitEngine ==
    /\ InitSession
    /\ peer = "counterparty"
    /\ reset_on_disconnect = TRUE
    /\ engine_config \in {<<>>} \cup {<<c>> : c \in Configs}
    /\ unread = <<>>

NextEngine ==
    \/ \E config \in Configs : \E outcome \in ConnectOutcomes :
          AddSession(config, outcome)
    \/ EngineStart
    \/ HandleConnection

EngineSpec == InitEngine /\ [][NextEngine]_vars

\* a Transport that reads what a peer wrote, one or two frames, in reads of
\* any size
InitTransport ==
    /\ InitSession
    /\ peer = "counterparty"
    /\ reset_on_disconnect = TRUE
    /\ engine_config = <<>>
    /\ unread \in Frames \cup {f \o g : f \in Frames, g \in Frames}

NextTransport == Receive

TransportSpec == InitTransport /\ [][NextTransport]_vars

\* the message processor calls receive() again and again
ReceiveFairness == WF_vars(Receive)

ProcessorTransportSpec == TransportSpec /\ ReceiveFairness

\* ------------------------------------------------------------------ claims
\* the step in which the processor handles one more frame (last_recv')
Received == recv_count' = recv_count + 1

\* the MsgSeqNum(34) of the frame handled in this step, as parsed
RecvSeq == ParseI32(last_recv'.seq)

\* the frame handled in this step is ahead of, equal to, behind the expected
RecvAhead == Received /\ RecvSeq.ok /\ RecvSeq.val > next_incoming_seq
RecvBehind == Received /\ RecvSeq.ok /\ RecvSeq.val < next_incoming_seq
RecvExpected == Received /\ RecvSeq.ok /\ RecvSeq.val = next_incoming_seq

\* C1: the MsgSeqNum values written to the transport are 1, 2, 3, ... in wire
\* order, and next_outgoing_seq advances once per message sent
C1_OutboundDense ==
    /\ \A i \in 1..Len(wire) : ParseI32(wire[i].seq) = [ok |-> TRUE, val |-> i]
    /\ next_outgoing_seq = Len(wire) + 1

\* C2: next_incoming_seq moves only by accepting a frame whose MsgSeqNum equals
\* it, by exactly one, and only such a frame enters the store
C2_InboundDense ==
    [][/\ next_incoming_seq' # next_incoming_seq =>
            RecvExpected /\ next_incoming_seq' = next_incoming_seq + 1
       /\ messages' # messages => RecvExpected]_vars

C4_PossDupTolerated ==
    [][RecvBehind /\ last_recv'.possDup = "Y" =>
         next_incoming_seq' = next_incoming_seq]_vars

\* C5: a frame below the expected number without PossDupFlag = Y puts the
\* session in Error, is not stored and does not move next_incoming_seq
C5_LowSeqFatal ==
    [][RecvBehind /\ last_recv'.possDup # "Y" =>
         /\ status' = "Error"
         /\ next_incoming_seq' = next_incoming_seq
         /\ messages' = messages]_vars

\* C6: a Logon handled while the status is InitiateLogon or LogonReceived
\* leaves the status Connected and test_request_counter 0
C6_LogonConnects ==
    [][/\ Received
       /\ last_recv'.type = LOGON
       /\ status \in {"InitiateLogon", "LogonReceived"}
       => status' = "Connected" /\ test_request_counter' = 0]_vars

\* the initiator is connected to the acceptor and its Logon is on the wire
LogonSent == peer = "acceptor" /\ wire # <<>> /\ wire[1].type = LOGON

BothConnected ==
    /\ status = "Connected"
    /\ next_incoming_seq = 2
    /\ next_outgoing_seq = 2
    /\ \E i \in DOMAIN acceptor_sessions :
          /\ acceptor_sessions[i].status = "Connected"
          /\ acceptor_sessions[i].next_incoming_seq = 2
          /\ acceptor_sessions[i].next_outgoing_seq = 2

\* the acceptor was stopped or the connection broke under the sessions
Disturbed == listener = "None" \/ link = "reset"

\* C7: once the initiator's Logon is sent to the acceptor, both sessions
\* eventually are Connected with next_incoming_seq = next_outgoing_seq = 2
\* (unless the acceptor is stopped or the connection breaks meanwhile)
C7_HappyLogon == LogonSent ~> (BothConnected \/ Disturbed)

\* C8: a SequenceReset with GapFillFlag = Y and NewSeqNo = k leaves
\* next_incoming_seq = k
C8_GapFillSetsIncoming ==
    [][Received /\ last_recv'.type = SEQUENCE_RESET /\ last_recv'.gapFill = "Y" =>
         next_incoming_seq' = ParseI32(last_recv'.newSeqNo).val]_vars

\* the sequence numbers the store holds within [BeginSeqNo, EndSeqNo] of the
\* ResendRequest handled in this step
Requested ==
    {k \in DOMAIN messages :
        /\ ParseI32(last_recv'.beginSeqNo).val <= k
        /\ k <= ParseI32(last_recv'.endSeqNo).val}

\* C9: a ResendRequest for [begin, end] is answered by writing every stored
\* message of that range to the transport, each with PossDupFlag = Y
C9_ResendFromStore ==
    [][Received /\ ~RecvAhead /\ last_recv'.type = RESEND_REQUEST =>
         /\ Len(wire') = Len(wire) + Cardinality(Requested)
         /\ \A i \in (Len(wire) + 1)..Len(wire') : wire'[i].possDup = "Y"]_vars

\* C10: a Logout from the peer ends in Disconnected only with the Logout echo
\* written and the transport cleared
C10_LogoutEcho ==
    [][Received /\ ~RecvAhead /\ last_recv'.type = LOGOUT =>
         /\ status' = "Disconnected"
         /\ transport' = "None"
         /\ Len(wire') = Len(wire) + 1
         /\ wire'[Len(wire')].type = LOGOUT]_vars

\* C11: a Connected session is moved to Disconnecting only after the second
\* TestRequest of the silence (test_request_counter = 2)
C11_TwoTestRequestsFirst ==
    [][status = "Connected" /\ status' = "Disconnecting" =>
         test_request_counter >= 2]_vars

\* should_disconnect() as a tick taken at the present instant evaluates it
ShouldDisconnectNow == should_disconnect(now)

\* C12: at the moment an accepted Logon makes the status Connected,
\* should_disconnect() is false
C12_FreshlyConnected ==
    [][Received /\ status # "Connected" /\ status' = "Connected" =>
         ~ShouldDisconnectNow']_vars

\* the status is Disconnecting and the application has made no call: the
\* heartbeat monitor has set it
MonitorDisconnecting == status = "Disconnecting" /\ api_calls = 0

\* C13: a session that its heartbeat monitor has moved to Disconnecting
\* eventually is Disconnected
C13_DisconnectingEnds == MonitorDisconnecting ~> (status = "Disconnected")

\* C14: when the connect made by start() fails the status becomes Error
C14_ConnectFailIsError ==
    [][status = "Connecting" /\ link = "none" /\ link' = "refused" =>
         status' = "Error"]_vars

\* the step in which a monitor ends on a failed send of its TestRequest or
\* Heartbeat
MonitorSendFailed ==
    \E i \in Tasks : /\ hb_pc[i] \in {"test_request", "heartbeat"}
                     /\ hb_pc'[i] = "done"

\* the step in which a processor ends on the Err of receive()
ProcessorReceiveFailed ==
    \E i \in Tasks : /\ proc_pc[i] = "receive"
                     /\ proc_pc'[i] = "done"
                     /\ ~Received

\* C15: a failed send in the heartbeat monitor and a failed receive in the
\* message processor each leave the status Error
C15_TransportFailureIsError ==
    [][MonitorSendFailed \/ ProcessorReceiveFailed => status' = "Error"]_vars

\* the steps in which recover() starts and in which it returns
RecoverStarts == api_pc = "idle" /\ api_pc' = "recover_logout"

RecoverReturns ==
    /\ api_pc \in {"recover_logout", "recover_connect", "recover_initiate",
                   "recover_send"}
    /\ api_pc' = "idle"

\* recover() returned Ok: InitiateLogon, a transport installed, a monitor and
\* a processor spawned in this step
RecoveredOk ==
    /\ api_result' = [call |-> "recover", ok |-> TRUE]
    /\ status' = "InitiateLogon"
    /\ transport' = "Some"
    /\ \E i \in Tasks : /\ hb_pc[i] # "wait" /\ hb_pc'[i] = "wait"
                        /\ proc_pc[i] # "loop" /\ proc_pc'[i] = "loop"

\* recover() returned Err: Error, no transport
RecoveredErr ==
    /\ api_result' = [call |-> "recover", ok |-> FALSE]
    /\ status' = "Error"
    /\ transport' = "None"

\* C16: recover() returns either Ok with the status InitiateLogon, a fresh
\* transport and the loops re-entered, or Err with the status Error and no
\* transport; the sequence numbers are reset to 1 and the store's log cleared
\* exactly when reset_on_disconnect is set
C16_RecoverOutcomes ==
    [][/\ RecoverReturns => RecoveredOk \/ RecoveredErr
       /\ RecoverStarts =>
            IF reset_on_disconnect
            THEN /\ next_outgoing_seq' = 1 /\ next_incoming_seq' = 1
                 /\ messages' = EmptyIndex /\ file' = <<>>
            ELSE /\ next_outgoing_seq' = next_outgoing_seq
                 /\ next_incoming_seq' = next_incoming_seq]_vars

\* C17: a frame that does not parse leaves the status as it is unless it is
\* the third such frame in a row
C17_InvalidFrameDiscarded ==
    [][invalid_run' = invalid_run + 1 /\ invalid_run' < 3 =>
         status' = status]_vars

\* stop() has returned Ok and the status is Disconnected
Stopped ==
    /\ api_pc = "idle"
    /\ api_result = [call |-> "stop", ok |-> TRUE]
    /\ status = "Disconnected"

\* C18: on a stopped session the monitor's next tick ends the monitor and the
\* processor's next loop iteration ends the processor
C18_TasksObserveStop ==
    [][Stopped =>
         \A i \in Tasks :
            /\ hb_pc[i] = "wait" /\ hb_pc'[i] # "wait" => hb_pc'[i] = "done"
            /\ proc_pc[i] = "loop" /\ proc_pc'[i] # "loop" => proc_pc'[i] = "done"]_vars

\* the step is a call of the store's method op
StoreCall(op) == store_result'.op = op

\* C19: begin_transaction on a session that has a transaction returns Err
\* and leaves the transaction, its buffered messages and the version counter
\* as they are
C19_SecondBeginFails ==
    [][transactions # NoTransaction /\ StoreCall("begin_transaction") =>
         /\ store_result'.ok = FALSE
         /\ transactions' = transactions
         /\ version_counter' = version_counter]_vars

\* C19 witness: a second begin_transaction has failed on a transaction that
\* holds a buffered message
C19_Witness ==
    /\ store_result = [op |-> "begin_transaction", ok |-> FALSE]
    /\ transactions # NoTransaction
    /\ transactions.messages # <<>>

\* C20: with a transaction open, begin, store_message and
\* rollback_transaction leave what get_message returns, the index and the
\* session file as they are, and rollback closes the transaction
C20_BufferedUntilCommit ==
    [][/\ StoreCall("begin_transaction") \/ StoreCall("rollback_transaction")
          \/ (transactions # NoTransaction /\ StoreCall("store_message"))
          => /\ \A k \in 1..MaxSeq : get_message(k)' = get_message(k)
             /\ messages' = messages
             /\ file' = file
       /\ StoreCall("rollback_transaction") => transactions' = NoTransaction]_vars

\* C20 witness: a rollback has discarded a transaction; before it a message was
\* stored and committed, so the index and the file are not empty
C20_Witness ==
    /\ store_result = [op |-> "rollback_transaction", ok |-> TRUE]
    /\ transactions = NoTransaction
    /\ messages # EmptyIndex
    /\ file # <<>>

\* the step is a commit_transaction that returned Ok on a transaction with
\* buffered messages
CommitsBuffered ==
    /\ transactions # NoTransaction
    /\ transactions.messages # <<>>
    /\ StoreCall("commit_transaction")
    /\ store_result'.ok

\* the buffered entry j is the last one the transaction holds for its
\* sequence number
LastBuffered(j) ==
    \A h \in DOMAIN transactions.messages :
        transactions.messages[h].seq_num = transactions.messages[j].seq_num
            => h <= j

\* C21: after a successful commit_transaction every buffered (seq, msg) is
\* what get_message_with_version returns for seq, all with the version of the
\* transaction, and that version is not less than any version the index held
\* for the session before
C21_CommittedVersion ==
    [][CommitsBuffered =>
         /\ \A j \in DOMAIN transactions.messages :
               LastBuffered(j) =>
                  /\ transactions.messages[j].seq_num \in DOMAIN messages'
                  /\ messages'[transactions.messages[j].seq_num] =
                        [msg |-> transactions.messages[j].msg,
                         version |-> transactions.version]
         /\ \A k \in DOMAIN messages :
               transactions.version >= messages[k].version]_vars

\* C22: a commit_transaction that fails on an open transaction leaves the
\* transaction open with its buffered messages
C22_FailedCommitKeepsTransaction ==
    [][/\ transactions # NoTransaction
       /\ StoreCall("commit_transaction")
       /\ ~store_result'.ok
       => transactions' = transactions]_vars

\* what a fresh MessageStore holds after load_messages on the session file
FreshIndex ==
    [k \in FileSeqs |->
        [msg |-> file[LastLine(k)].msg, version |-> file[LastLine(k)].version]]

FreshSequenceNumbers == IF FileSeqs # {} THEN Max(FileSeqs) + 1 ELSE 0

\* C23: with no transaction open, a fresh store that loads the session file
\* holds the (seq, version, message) tuples of the writing store's index, and
\* its next sequence number is the largest persisted sequence number plus one
C23_ReloadIsLossless ==
    transactions = NoTransaction =>
        /\ FreshIndex = messages
        /\ FileSeqs # {} => FreshSequenceNumbers = Max(FileSeqs) + 1

\* C24: no call of the store makes the version counter smaller
C24_VersionCounterMonotonic ==
    [][version_counter' >= version_counter]_vars

\* C25: with reset_on_logon the peer's Logon that completes the exchange
\* leaves both sequence numbers at 1 and the session's store file empty
C25_ResetOnLogon ==
    [][/\ reset_on_logon
       /\ Received
       /\ status = "InitiateLogon"
       /\ status' = "Connected"
       => /\ next_incoming_seq' = 1
          /\ next_outgoing_seq' = 1
          /\ file' = <<>>]_vars

InvalidConfigHandled ==
    /\ engine_result'.n = engine_result.n + 1
    /\ \/ /\ engine_result'.call = "add_session"
          /\ ~validate(engine_result'.config)
       \/ /\ engine_result'.call = "start"
          /\ \E i \in DOMAIN engine_config : ~validate(engine_config[i])

\* C27: add_session and start return an error for a config that fails
\* validation and register no session
C27_InvalidConfigRejected ==
    [][InvalidConfigHandled =>
         /\ ~engine_result'.ok
         /\ initiator_sessions' = initiator_sessions]_vars

\* C28: get_session returns the session for every id get_session_ids reports,
\* and SessionNotFound only for an id no registered session has
C28_GetSessionFindsRegistered ==
    /\ \A i \in DOMAIN get_session_ids : get_session(get_session_ids[i]).ok
    /\ \A c \in Configs :
          get_session(session_id(c)).error = "SessionNotFound" =>
             \A i \in DOMAIN get_session_ids : get_session_ids[i] # session_id(c)

\* C29: no two sessions registered in the engine have the same id
C29_SessionIdsUnique ==
    \A i, j \in DOMAIN get_session_ids :
        i # j => get_session_ids[i] # get_session_ids[j]

\* the bytes the step's receive() finds in the buffer after its read
ReadInto == buffer \o SubSeq(unread, 1, Len(unread) - Len(unread'))

\* C30: a receive() that finds one complete frame followed by a partial
\* frame in the buffer returns the first frame and leaves the partial frame
\* in the buffer; one that finds only a partial frame returns nothing and
\* leaves the buffer as it is
C30_FrameExtraction ==
    [][Len(unread') < Len(unread) =>
         /\ \A f \in Frames : \A g \in Frames : \A p \in PartialFrames(g) :
               ReadInto = f \o p =>
                  /\ extract_complete_message(ReadInto) =
                        [found |-> TRUE, msg_str |-> f, consumed |-> Len(f)]
                  /\ receive_result' = [ok |-> TRUE, frame |-> f]
                  /\ buffer' = p
         /\ \A g \in Frames : \A p \in PartialFrames(g) :
               ReadInto = p =>
                  /\ extract_complete_message(ReadInto) = NoFrame
                  /\ receive_result' = [ok |-> TRUE, frame |-> <<>>]
                  /\ buffer' = p]_vars

\* the monitors and the processors of the session that are alive
LiveMonitors == {i \in Tasks : hb_pc[i] \notin {"unspawned", "done"}}

LiveProcessors == {i \in Tasks : proc_pc[i] \notin {"unspawned", "done"}}

\* C36: the session never has more than one live heartbeat monitor or more
\* than one live message processor
C36_OneTaskPair ==
    /\ Cardinality(LiveMonitors) <= 1
    /\ Cardinality(LiveProcessors) <= 1

\* monitor i sends the periodic Heartbeat
MonitorSendsHeartbeat(i) ==
    /\ hb_pc[i] = "heartbeat"
    /\ wire' = Append(wire, pool_heartbeat)

\* the TestRequest of the tick taken at clock reading t is on the wire
TestRequestSentAt(t) ==
    \E k \in DOMAIN wire : /\ wire[k].type = TEST_REQUEST
                           /\ wire[k].testReqId = <<"TEST_REQ", t>>

\* C32: the actions of a tick exclude each other: a monitor that has sent the
\* TestRequest of a tick does not send a Heartbeat on the same tick
C32_TickActionsExclusive ==
    [][\A i \in Tasks : MonitorSendsHeartbeat(i) => ~TestRequestSentAt(now)]_vars

\* monitor i is inside an iteration of its loop: past the tick and not yet
\* back at interval.tick() or out of the loop
InIteration(i) ==
    hb_pc[i] \in {"test_request", "status_check", "heartbeat", "blocked"}

\* C34: every iteration of the heartbeat monitor completes: the monitor
\* leaves the loop or comes back to the wait for the next tick
C34_IterationCompletes ==
    \A i \in Tasks : InIteration(i) ~> (hb_pc[i] \in {"wait", "done"})

\* a call of stop, disconnect, logout or recover is under way while a message
\* processor is alive
CallWithProcessor == api_pc # "idle" /\ LiveProcessors # {}

\* C35: a call of stop, disconnect, logout or recover made while the message
\* processor runs eventually returns
C35_CallsReturn == CallWithProcessor ~> (api_pc = "idle")

\* a processor that holds the transport mutex in receive() takes the state
\* mutex: to handle the frame read, or in the Err arm
TakesStateHoldingTransport ==
    \E i \in Tasks :
        /\ proc_pc[i] = "receive"
        /\ proc_pc'[i] # "receive"
        /\ \/ Received /\ LocksState(last_recv')
           \/ ~Received /\ proc_pc'[i] = "done"

\* C33: the locks are taken in the order state, transport: no task asks for
\* the state mutex while it holds the transport mutex
C33_LockOrder == [][~TakesStateHoldingTransport]_vars

\* C40: a message handed out by the pool carries nothing of its previous
\* holder: the periodic Heartbeat of the monitor has no TestReqID
C40_PooledMessageClean ==
    [][\A i \in Tasks :
          MonitorSendsHeartbeat(i) => wire'[Len(wire')].testReqId = NoId]_vars

\* C38: get_next_seq_num is one more than the largest sequence number of the
\* in-memory index, and 1 while the index is empty
C38_NextSeqNumFollowsIndex ==
    get_next_seq_num = IF DOMAIN messages = {} THEN 1
                       ELSE Max(DOMAIN messages) + 1

\* the step in which add_session returns the error of start_session
StartSessionFailed ==
    /\ engine_result'.n = engine_result.n + 1
    /\ engine_result'.call = "add_session"
    /\ ~engine_result'.ok

\* C39: a start_session that fails leaves the registry of sessions exactly as
\* it was before the call
C39_FailedStartLeavesRegistry ==
    [][StartSessionFailed => initiator_sessions' = initiator_sessions]_vars

\* the peer's bytes have all been read and a complete frame lies in the
\* buffer of the Transport
FrameWaiting == unread = <<>> /\ extract_complete_message(buffer).found

\* C37: a complete frame that was read is eventually taken out of the buffer
\* and handed on, also when it came in the same read as the frame before it
\* and no bytes follow
C37_BufferedFrameDelivered == FrameWaiting ~> ~FrameWaiting

\* the fields of a message other than BodyLength and CheckSum
BodyFields(m) ==
    [tag \in DOMAIN m.fields \ {BODY_LENGTH, CHECKSUM} |-> m.fields[tag]]

\* C31: a message that is serialized and parsed back has the type, the fields
\* and the groups of the original (BodyLength and CheckSum, which belong to
\* the text, left aside)
C31_RoundTrip ==
    parsed.called =>
        /\ parsed.ok
        /\ parsed.msg.msg_type = original.msg_type
        /\ BodyFields(parsed.msg) = BodyFields(original)
        /\ parsed.msg.groups = original.groups
====
